---- MODULE Spec2Model ----
(***************************************************************************)
(* ml-workflow-logger: the MLWorkFlowLogger facade (logger.py), the Flow   *)
(* and Run entities (flow.py, run.py) and the parts of the MongoDB driver  *)
(* the facade calls (drivers/mongodb.py).                                  *)
(*                                                                         *)
(* Ten specifications share the variables:                                 *)
(*   SpecNew      threads calling the constructor (__new__ then __init__)  *)
(*   SpecFlow     a client driving Flow objects through their methods      *)
(*   SpecSnapshot a client keeping a dict that Flow.to_dict returned       *)
(*   SpecRun      a client driving one Run object through its methods      *)
(*   Spec         a client driving the initialised facade                  *)
(*   SpecReinit   a client calling the constructor again between calls     *)
(*   SpecTransition  threads switching to remote mode and calling end_run  *)
(*   SpecThreads  threads calling start_new_run and end_run concurrently   *)
(*   SpecDriver   a client calling the methods of the MongoDB driver       *)
(*   SpecCsv      threads calling save_dataframe concurrently              *)
(***************************************************************************)
EXTENDS Integers, Sequences, FiniteSets, TLC

\* ------------------------------------------------------------------ bounds
MaxThreads == 3
MaxFlows == 2
MaxTime == 1
MaxSteps == 2
MaxEdges == 2
MaxCalls == 3
\* clock ticks per second: datetime.now() is finer than the second that
\* strftime("%Y%m%d-%H%M%S") keeps
TicksPerSecond == 2

Threads == 1..MaxThreads
FlowIds == 1..MaxFlows

\* None, for every optional value that is otherwise a positive number
None == 0
\* None, for an optional value that is otherwise a time or a run id (both
\* start at 0)
NoTime == -1

VARIABLES
  \* class attributes of MLWorkFlowLogger and the constructor calls in flight
  _instance, _lock, allocated, pc, obj, ret, arg,
  \* attributes of the singleton
  _initialized, local_mode, db_driver, _flows, _runs,
  \* the Flow objects built so far, by local_flow_id; the content of the dict
  \* bound to the default argument of Flow.add_step
  flows, defaultData,
  \* the Run object of SpecRun
  run,
  \* the dict a client holds that Flow.to_dict returned
  taken,
  \* wall clock in ticks, as datetime.now() reads it
  now,
  \* the lines of the CSV artifacts that exist under log_dir, by the key in
  \* their file name
  csv,
  \* the collections of the document store behind the driver
  db_flows, db_runs, db_records, db_dataframes,
  \* the last call made by the client and how it ended
  last,
  \* the number of calls the client has made to the singleton's methods
  calls

vars == <<_instance, _lock, allocated, pc, obj, ret, arg,
          _initialized, local_mode, db_driver, _flows, _runs,
          flows, defaultData, run, taken, now, csv,
          db_flows, db_runs, db_records, db_dataframes, last, calls>>

ctorVars == <<_instance, _lock, allocated, pc, obj, ret, arg>>
facadeVars == <<_initialized, local_mode, db_driver, _flows, _runs>>
entityVars == <<flows, defaultData, run, taken>>
dbVars == <<csv, db_flows, db_runs, db_records, db_dataframes>>

\* the empty dict {}
EmptyDict == <<>>

\* no dict of a flow held
NoSnapshot == [flow_id |-> None, flow_name |-> <<>>, status |-> "none", steps |-> <<>>]

\* `last' before any call
NoCall == [op |-> "none", fault |-> "none", id |-> None, arg |-> "none",
           data |-> EmptyDict, pre |-> "none", run |-> NoTime, ret |-> NoTime,
           io |-> <<>>]

\* --------------------------------------------------------------- SpecNew
\* MLWorkFlowLogger(...): Python runs cls.__new__ and then __init__ on the
\* object it returned.  arg[t] is TRUE when thread t passes a db_driver_config.

CallConstructor(t) ==
  /\ pc[t] = "idle"
  /\ \E c \in BOOLEAN : arg' = [arg EXCEPT ![t] = c]
  /\ pc' = [pc EXCEPT ![t] = "new_check1"]
  /\ UNCHANGED <<_instance, _lock, allocated, obj, ret>>
  /\ UNCHANGED <<facadeVars, entityVars, now, dbVars, calls, last>>

\* line 28: if cls._instance is None
NewCheck1(t) ==
  /\ pc[t] = "new_check1"
  /\ pc' = [pc EXCEPT ![t] = IF _instance = None THEN "new_lock" ELSE "new_ret"]
  /\ UNCHANGED <<_instance, _lock, allocated, obj, ret, arg>>
  /\ UNCHANGED <<facadeVars, entityVars, now, dbVars, calls, last>>

\* line 29: with cls._lock (enter)
NewLock(t) ==
  /\ pc[t] = "new_lock"
  /\ _lock = None
  /\ _lock' = t
  /\ pc' = [pc EXCEPT ![t] = "new_check2"]
  /\ UNCHANGED <<_instance, allocated, obj, ret, arg>>
  /\ UNCHANGED <<facadeVars, entityVars, now, dbVars, calls, last>>

\* the mutant of NewCheck2: the second check is dropped
NewCheck2_NoRecheck(t) ==
  /\ pc[t] = "new_check2"
  /\ pc' = [pc EXCEPT ![t] = "new_alloc"]
  /\ UNCHANGED <<_instance, _lock, allocated, obj, ret, arg>>
  /\ UNCHANGED <<facadeVars, entityVars, now, dbVars, calls, last>>

\* line 30: if cls._instance is None (under the lock)
NewCheck2(t) ==
  /\ pc[t] = "new_check2"
  /\ pc' = [pc EXCEPT ![t] = IF _instance = None THEN "new_alloc" ELSE "new_unlock"]
  /\ UNCHANGED <<_instance, _lock, allocated, obj, ret, arg>>
  /\ UNCHANGED <<facadeVars, entityVars, now, dbVars, calls, last>>

\* line 31, right-hand side: super().__new__(cls) builds a new object
NewAlloc(t) ==
  /\ pc[t] = "new_alloc"
  /\ allocated' = allocated + 1
  /\ obj' = [obj EXCEPT ![t] = allocated + 1]
  /\ pc' = [pc EXCEPT ![t] = "new_store"]
  /\ UNCHANGED <<_instance, _lock, ret, arg>>
  /\ UNCHANGED <<facadeVars, entityVars, now, dbVars, calls, last>>

\* line 31, the store: cls._instance = <the new object>
NewStore(t) ==
  /\ pc[t] = "new_store"
  /\ _instance' = obj[t]
  /\ pc' = [pc EXCEPT ![t] = "new_unlock"]
  /\ UNCHANGED <<_lock, allocated, obj, ret, arg>>
  /\ UNCHANGED <<facadeVars, entityVars, now, dbVars, calls, last>>

\* line 29: with cls._lock (exit)
NewUnlock(t) ==
  /\ pc[t] = "new_unlock"
  /\ _lock' = None
  /\ pc' = [pc EXCEPT ![t] = "new_ret"]
  /\ UNCHANGED <<_instance, allocated, obj, ret, arg>>
  /\ UNCHANGED <<facadeVars, entityVars, now, dbVars, calls, last>>

\* line 32: return cls._instance
NewReturn(t) ==
  /\ pc[t] = "new_ret"
  /\ ret' = [ret EXCEPT ![t] = _instance]
  /\ pc' = [pc EXCEPT ![t] = "init_lock"]
  /\ UNCHANGED <<_instance, _lock, allocated, obj, arg>>
  /\ UNCHANGED <<facadeVars, entityVars, now, dbVars, calls, last>>

\* line 45: with self._lock (enter)
InitLock(t) ==
  /\ pc[t] = "init_lock"
  /\ _lock = None
  /\ _lock' = t
  /\ pc' = [pc EXCEPT ![t] = "init_body"]
  /\ UNCHANGED <<_instance, allocated, obj, ret, arg>>
  /\ UNCHANGED <<facadeVars, entityVars, now, dbVars, calls, last>>

\* the mutant of InitAgain: the mode is switched before the driver is set up
InitAgain_ModeFirst(t, ok) ==
  /\ _initialized
  /\ IF arg[t] /\ local_mode
       THEN IF ok
              THEN /\ db_driver' = TRUE
                   /\ local_mode' = FALSE
                   /\ pc' = [pc EXCEPT ![t] = "init_unlock"]
              ELSE /\ local_mode' = FALSE
                   /\ UNCHANGED db_driver
                   /\ pc' = [pc EXCEPT ![t] = "init_raise"]
       ELSE /\ UNCHANGED <<db_driver, local_mode>>
            /\ pc' = [pc EXCEPT ![t] = "init_unlock"]
  /\ UNCHANGED <<_initialized, _flows, _runs>>

\* the mutant of InitAgain: the registries are set anew, as lines 64-65 do in
\* the first initialisation
InitAgain_Reset(t, ok) ==
  /\ _initialized
  /\ IF arg[t] /\ local_mode
       THEN IF ok
              THEN /\ db_driver' = TRUE
                   /\ local_mode' = FALSE
                   /\ pc' = [pc EXCEPT ![t] = "init_unlock"]
              ELSE /\ UNCHANGED <<db_driver, local_mode>>
                   /\ pc' = [pc EXCEPT ![t] = "init_raise"]
       ELSE /\ UNCHANGED <<db_driver, local_mode>>
            /\ pc' = [pc EXCEPT ![t] = "init_unlock"]
  /\ _flows' = {}
  /\ _runs' = EmptyDict
  /\ UNCHANGED _initialized

\* lines 46-54: the singleton is initialised already.  With a configuration on
\* a local-mode singleton the driver is set up (ok: MongoDBDriver(config)
\* returned; ~ok: it raised, mongodb.py lines 70-72) and the mode switched.
InitAgain(t, ok) ==
  /\ _initialized
  /\ IF arg[t] /\ local_mode
       THEN IF ok
              THEN /\ db_driver' = TRUE
                   /\ local_mode' = FALSE
                   /\ pc' = [pc EXCEPT ![t] = "init_unlock"]
              ELSE /\ UNCHANGED <<db_driver, local_mode>>
                   /\ pc' = [pc EXCEPT ![t] = "init_raise"]
       ELSE /\ UNCHANGED <<db_driver, local_mode>>
            /\ pc' = [pc EXCEPT ![t] = "init_unlock"]
  /\ UNCHANGED <<_initialized, _flows, _runs>>

\* lines 56-76: first initialisation
InitFirst(t, ok) ==
  /\ ~_initialized
  /\ local_mode' = ~arg[t]
  /\ _runs' = EmptyDict
  /\ _flows' = {}
  /\ IF arg[t]
       THEN IF ok
              THEN /\ db_driver' = TRUE
                   /\ _initialized' = TRUE
                   /\ pc' = [pc EXCEPT ![t] = "init_unlock"]
              ELSE /\ db_driver' = FALSE
                   /\ UNCHANGED _initialized
                   /\ pc' = [pc EXCEPT ![t] = "init_raise"]
       ELSE /\ db_driver' = FALSE
            /\ _initialized' = TRUE
            /\ pc' = [pc EXCEPT ![t] = "init_unlock"]

\* lines 45-76: the body of __init__, run under the lock
InitBody(t) ==
  /\ pc[t] = "init_body"
  /\ \E ok \in BOOLEAN : InitAgain(t, ok) \/ InitFirst(t, ok)
  /\ UNCHANGED <<_instance, _lock, allocated, obj, ret, arg>>
  /\ UNCHANGED <<entityVars, now, dbVars, calls, last>>

\* line 45: with self._lock (exit), normally or with the exception in flight
InitUnlock(t) ==
  /\ pc[t] \in {"init_unlock", "init_raise"}
  /\ _lock' = None
  /\ pc' = [pc EXCEPT ![t] = IF pc[t] = "init_unlock" THEN "done" ELSE "raised"]
  /\ UNCHANGED <<_instance, allocated, obj, ret, arg>>
  /\ UNCHANGED <<facadeVars, entityVars, now, dbVars, calls, last>>

InitNew ==
  /\ _instance = None
  /\ _lock = None
  /\ allocated = 0
  /\ pc = [t \in Threads |-> "idle"]
  /\ obj = [t \in Threads |-> None]
  /\ ret = [t \in Threads |-> None]
  /\ arg = [t \in Threads |-> FALSE]
  /\ _initialized = FALSE
  /\ local_mode = TRUE
  /\ db_driver = FALSE
  /\ _flows = {}
  /\ _runs = EmptyDict
  /\ flows = <<>>
  /\ defaultData = EmptyDict
  /\ run = <<>>
  /\ now = 0
  /\ csv = EmptyDict
  /\ db_flows = EmptyDict
  /\ db_runs = EmptyDict
  /\ db_records = {}
  /\ db_dataframes = <<>>
  /\ taken = NoSnapshot
  /\ last = NoCall
  /\ calls = 0

NextNew ==
  \E t \in Threads :
    \/ CallConstructor(t)
    \/ NewCheck1(t)
    \/ NewLock(t)
    \/ NewCheck2(t)
    \/ NewAlloc(t)
    \/ NewStore(t)
    \/ NewUnlock(t)
    \/ NewReturn(t)
    \/ InitLock(t)
    \/ InitBody(t)
    \/ InitUnlock(t)

SpecNew == InitNew /\ [][NextNew]_vars

\* C1: however the steps of __new__ of concurrent constructor calls interleave,
\* at most one object is ever built, and every call that has returned from
\* __new__ holds that one object.
C1_Singleton ==
  /\ allocated <= 1
  /\ \A t \in Threads : ret[t] # None => ret[t] = 1 /\ _instance = 1

\* every thread has got its handle, and more than one thread had seen
\* _instance to be None at the first check (they went through the lock)
\* a thread that saw None at the first check finds, under the lock, the object
\* another thread built meanwhile, while a third call holds its handle already
C1_Witness ==
  \E t, u \in Threads :
    /\ t # u
    /\ pc[t] = "new_unlock"
    /\ obj[t] = None
    /\ obj[u] = 1
    /\ ret[u] = 1


\* C14: the mode changes in one direction only: once local_mode is False, no
\* later constructor call, after success or failure of the driver's setup,
\* makes it True again.
C14_ModeOneWay ==
  [][(~local_mode) => (~local_mode')]_vars

StepNames == {"s1", "s2"}
NameInputs == StepNames \cup {"ghost"}
\* flow names, as character sequences: "f" and the blank " "
FlowNames == {<<"f">>, <<" ">>}
\* valid_statuses (flow.py line 106, run.py line 55)
ValidStatuses == {"created", "running", "completed", "failed"}
\* what callers pass as a status: the valid ones and "Running"
\* (logger.py line 259, run.py line 32)
StatusInputs == ValidStatuses \cup {"Running"}
\* step_data dicts a client passes
DataInputs == {[a |-> 1, c |-> 1]}
UpdateInputs == {[a |-> 2]}

\* the mutant of DictUpdate: the dict is replaced by d
DictUpdate_Replace(old, d) == d

\* dict.update: the keys of d overwritten, the others kept
DictUpdate(old, d) ==
  [k \in DOMAIN old \cup DOMAIN d |-> IF k \in DOMAIN d THEN d[k] ELSE old[k]]

\* Flow.__init__ (the local_flow_id is the object's index in flows)
NewFlow(name) ==
  [flow_name |-> name, global_flow_id |-> None, status |-> "created",
   steps |-> <<>>, nodes |-> {}, edges |-> {}, locked |-> FALSE]

\* Step(step_name, step_data): byDefault is TRUE when step_data is the dict
\* object bound to the default argument of Flow.add_step, whose content is
\* defaultData; otherwise the step holds the caller's dict
NewStep(name, byDefault, data) ==
  [step_name |-> name, shared |-> byDefault,
   step_data |-> IF byDefault THEN EmptyDict ELSE data]

\* the content of a step's step_data
StepData(st) == IF st.shared THEN defaultData ELSE st.step_data

StepNamesOf(fl) == {fl.steps[i].step_name : i \in 1..Len(fl.steps)}

\* the result of a method: the fault raised ("none": it returned) and the
\* object afterwards
Result(f, fl) == [fault |-> f, flow |-> fl]

\* the mutant of AddStep: the lock is not checked
AddStep_NoLockCheck(fl, name, byDefault, data) ==
  IF name \in StepNamesOf(fl)
    THEN Result("Duplicate", fl)
    ELSE Result("none", [fl EXCEPT !.steps = Append(@, NewStep(name, byDefault, data)),
                                    !.nodes = @ \cup {name}])

\* the mutant of AddStep: the duplicate check is dropped
AddStep_NoDuplicateCheck(fl, name, byDefault, data) ==
  IF fl.locked
    THEN Result("Locked", fl)
    ELSE Result("none", [fl EXCEPT !.steps = Append(@, NewStep(name, byDefault, data)),
                                    !.nodes = @ \cup {name}])

\* Flow.add_step
AddStep(fl, name, byDefault, data) ==
  IF fl.locked
    THEN Result("Locked", fl)
    ELSE IF \E i \in 1..Len(fl.steps) : fl.steps[i].step_name = name
      THEN Result("Duplicate", fl)
      ELSE Result("none", [fl EXCEPT !.steps = Append(@, NewStep(name, byDefault, data)),
                                      !.nodes = @ \cup {name}])

\* the mutant of AddTransition: the target is not checked
AddTransition_NoTargetCheck(fl, source, target) ==
  IF fl.locked
    THEN Result("Locked", fl)
    ELSE IF source \notin fl.nodes
      THEN Result("UnknownStep", fl)
      ELSE Result("none", [fl EXCEPT !.edges = @ \cup {<<source, target>>},
                                      !.nodes = @ \cup {source, target}])

\* Flow.add_transition (DiGraph.add_edge adds the endpoints as nodes too)
AddTransition(fl, source, target) ==
  IF fl.locked
    THEN Result("Locked", fl)
    ELSE IF source \notin fl.nodes
      THEN Result("UnknownStep", fl)
      ELSE IF target \notin fl.nodes
        THEN Result("UnknownStep", fl)
        ELSE Result("none", [fl EXCEPT !.edges = @ \cup {<<source, target>>},
                                        !.nodes = @ \cup {source, target}])

\* the mutant of FlowUpdateStatus: the status is not validated
FlowUpdateStatus_NoValidation(fl, status) ==
  Result("none", [fl EXCEPT !.status = status])

\* Flow.update_status
FlowUpdateStatus(fl, status) ==
  IF status \notin ValidStatuses
    THEN Result("InvalidStatus", fl)
    ELSE Result("none", [fl EXCEPT !.status = status])

\* the mutant of LockFlow: lock_flow toggles the flag
LockFlow_Toggle(fl) == Result("none", [fl EXCEPT !.locked = ~@])

\* Flow.lock_flow
LockFlow(fl) == Result("none", [fl EXCEPT !.locked = TRUE])

\* str.strip() of a character sequence
RECURSIVE LStrip(_)
LStrip(s) == IF s # <<>> /\ Head(s) = " " THEN LStrip(Tail(s)) ELSE s
RECURSIVE RStrip(_)
RStrip(s) ==
  IF s # <<>> /\ s[Len(s)] = " " THEN RStrip(SubSeq(s, 1, Len(s) - 1)) ELSE s
Strip(s) == RStrip(LStrip(s))

\* Flow.validate
Validate(fl) ==
  IF Strip(fl.flow_name) = <<>>
    THEN Result("Validation", fl)
    ELSE IF fl.steps = <<>>
      THEN Result("Validation", fl)
      ELSE Result("none", fl)

\* the mutant of StepToDict: the dict holds the step's own step_data object
StepToDict_NoCopy(st) ==
  [step_name |-> st.step_name, step_data |-> StepData(st), copied |-> FALSE]

\* Step.to_dict and Flow.to_dict: asdict copies the step's dict (copied: the
\* step_data of the result is an object of its own)
StepToDict(st) ==
  [step_name |-> st.step_name, step_data |-> StepData(st), copied |-> TRUE]
FlowToDict(f, fl) ==
  [flow_id |-> f, flow_name |-> fl.flow_name, status |-> fl.status,
   steps |-> [i \in 1..Len(fl.steps) |-> StepToDict(fl.steps[i])]]

\* a call record
Call(op, fault, id, a) == [NoCall EXCEPT !.op = op, !.fault = fault, !.id = id, !.arg = a]

Live(f) == f \in DOMAIN flows

FlowAddStep(f) ==
  /\ Live(f)
  /\ \E name \in StepNames, byDefault \in BOOLEAN, data \in DataInputs :
       /\ LET r == AddStep(flows[f], name, byDefault, data) IN
            /\ Len(r.flow.steps) <= MaxSteps
            /\ flows' = [flows EXCEPT ![f] = r.flow]
            /\ last' = Call("add_step", r.fault, f, name)
  /\ UNCHANGED <<ctorVars, facadeVars, defaultData, run, now, dbVars, calls, taken>>

FlowAddTransition(f) ==
  /\ Live(f)
  /\ \E source \in NameInputs, target \in NameInputs :
       LET r == AddTransition(flows[f], source, target) IN
         /\ Cardinality(r.flow.edges) <= MaxEdges
         /\ flows' = [flows EXCEPT ![f] = r.flow]
         /\ last' = [Call("add_transition", r.fault, f, source) EXCEPT !.pre = target]
  /\ UNCHANGED <<ctorVars, facadeVars, defaultData, run, now, dbVars, calls, taken>>

\* Flow.update_step: the first step of that name has its dict updated in
\* place, which for a step holding the default dict changes defaultData
FlowUpdateStep(f) ==
  /\ Live(f)
  /\ \E name \in NameInputs, d \in UpdateInputs :
       LET fl == flows[f]
           hits == {i \in 1..Len(fl.steps) : fl.steps[i].step_name = name}
       IN IF hits = {}
            THEN /\ last' = [Call("update_step", "UnknownStep", f, name) EXCEPT !.data = d]
                 /\ UNCHANGED <<flows, defaultData>>
            ELSE LET i == CHOOSE j \in hits : \A k \in hits : j <= k IN
                   /\ last' = [Call("update_step", "none", f, name) EXCEPT !.data = d]
                   /\ IF fl.steps[i].shared
                        THEN /\ defaultData' = DictUpdate(defaultData, d)
                             /\ UNCHANGED flows
                        ELSE /\ flows' = [flows EXCEPT ![f].steps[i].step_data =
                                                          DictUpdate(@, d)]
                             /\ UNCHANGED defaultData
  /\ UNCHANGED <<ctorVars, facadeVars, run, now, dbVars, calls, taken>>

FlowSetStatus(f) ==
  /\ Live(f)
  /\ \E status \in StatusInputs :
       LET r == FlowUpdateStatus(flows[f], status) IN
         /\ flows' = [flows EXCEPT ![f] = r.flow]
         /\ last' = Call("flow.update_status", r.fault, f, status)
  /\ UNCHANGED <<ctorVars, facadeVars, defaultData, run, now, dbVars, calls, taken>>

FlowValidate(f) ==
  /\ Live(f)
  /\ LET r == Validate(flows[f]) IN
       /\ flows' = [flows EXCEPT ![f] = r.flow]
       /\ last' = Call("validate", r.fault, f, "none")
  /\ UNCHANGED <<ctorVars, facadeVars, defaultData, run, now, dbVars, calls, taken>>

FlowSnapshot(f) ==
  /\ Live(f)
  /\ last' = [Call("to_dict", "none", f, "none") EXCEPT !.data = FlowToDict(f, flows[f])]
  /\ UNCHANGED <<ctorVars, facadeVars, entityVars, now, dbVars, calls>>

FlowLock(f) ==
  /\ Live(f)
  /\ LET r == LockFlow(flows[f]) IN
       /\ flows' = [flows EXCEPT ![f] = r.flow]
       /\ last' = [Call("lock_flow", r.fault, f, "none")
                     EXCEPT !.pre = IF flows[f].locked THEN "locked" ELSE "unlocked"]
  /\ UNCHANGED <<ctorVars, facadeVars, defaultData, run, now, dbVars, calls, taken>>

\* the client has built one Flow
InitFlow ==
  /\ _instance = None
  /\ _lock = None
  /\ allocated = 0
  /\ pc = [t \in Threads |-> "idle"]
  /\ obj = [t \in Threads |-> None]
  /\ ret = [t \in Threads |-> None]
  /\ arg = [t \in Threads |-> FALSE]
  /\ _initialized = FALSE
  /\ local_mode = TRUE
  /\ db_driver = FALSE
  /\ _flows = {}
  /\ _runs = EmptyDict
  /\ \E name \in FlowNames : flows = <<NewFlow(name)>>
  /\ defaultData = EmptyDict
  /\ run = <<>>
  /\ now = 0
  /\ csv = EmptyDict
  /\ db_flows = EmptyDict
  /\ db_runs = EmptyDict
  /\ db_records = {}
  /\ db_dataframes = <<>>
  /\ taken = NoSnapshot
  /\ last = NoCall
  /\ calls = 0

NextFlow ==
  \E f \in FlowIds :
    \/ FlowAddStep(f)
    \/ FlowAddTransition(f)
    \/ FlowUpdateStep(f)
    \/ FlowSetStatus(f)
    \/ FlowValidate(f)
    \/ FlowSnapshot(f)
    \/ FlowLock(f)

SpecFlow == InitFlow /\ [][NextFlow]_vars


\* C5: on a locked flow every add_step and add_transition call raises the
\* "Flow is locked" fault and leaves the flow (its steps, nodes and edges) as
\* it was.
C5_LockedRejects ==
  [][\A f \in DOMAIN flows :
       (flows[f].locked /\ last'.id = f /\ last'.op \in {"add_step", "add_transition"})
         => (last'.fault = "Locked" /\ flows'[f] = flows[f])]_vars

\* both kinds of call have been refused on a locked flow that has a step
C5_Witness ==
  \E f \in DOMAIN flows :
    /\ flows[f].locked
    /\ flows[f].steps # <<>>
    /\ last.id = f
    /\ last.op = "add_transition"
    /\ last.arg \in StepNamesOf(flows[f])
    /\ last.pre \in StepNamesOf(flows[f])
    /\ last.fault = "Locked"

\* C6: once a flow is locked it stays locked whatever method is called on it,
\* and lock_flow on a locked flow returns normally and changes nothing.
C6_LockOneWay ==
  [][\A f \in DOMAIN flows :
       flows[f].locked =>
         /\ flows'[f].locked
         /\ (last'.op = "lock_flow" /\ last'.id = f) =>
              (last'.fault = "none" /\ flows' = flows /\ defaultData' = defaultData)]_vars

\* lock_flow has been called on a flow that was locked already
C6_Witness ==
  \E f \in DOMAIN flows :
    flows[f].locked /\ last.op = "lock_flow" /\ last.id = f /\ last.pre = "locked"

\* no two steps of a flow have the same name
NoDuplicateNames ==
  \A f \in DOMAIN flows :
    \A i, j \in 1..Len(flows[f].steps) :
      flows[f].steps[i].step_name = flows[f].steps[j].step_name => i = j

\* C7, as claimed: no two steps of a flow share a name, and add_step with a
\* name the flow has already raises the "already exists" fault and changes
\* neither the flow nor any step's data.
C7_DuplicateRejected ==
  /\ []NoDuplicateNames
  /\ [][\A f \in DOMAIN flows :
          (last'.op = "add_step" /\ last'.id = f /\ last'.arg \in StepNamesOf(flows[f]))
            => /\ last'.fault = "Duplicate"
               /\ flows' = flows
               /\ defaultData' = defaultData]_vars

\* C7, amended: as C7, but on a locked flow the fault raised is the "Flow is
\* locked" one, which add_step checks first.
C7_DuplicateRejectedUnlessLocked ==
  /\ []NoDuplicateNames
  /\ [][\A f \in DOMAIN flows :
          (last'.op = "add_step" /\ last'.id = f /\ last'.arg \in StepNamesOf(flows[f]))
            => /\ last'.fault = (IF flows[f].locked THEN "Locked" ELSE "Duplicate")
               /\ flows' = flows
               /\ defaultData' = defaultData]_vars

\* a second add_step with the name of a step was refused as a duplicate
C7_Witness ==
  \E f \in DOMAIN flows :
    /\ last.op = "add_step" /\ last.id = f /\ last.fault = "Duplicate"
    /\ last.arg \in StepNamesOf(flows[f])
    /\ ~flows[f].locked

\* the endpoints of every edge are names of steps of the flow
EdgesBetweenSteps ==
  \A f \in DOMAIN flows :
    \A e \in flows[f].edges : e[1] \in StepNamesOf(flows[f]) /\ e[2] \in StepNamesOf(flows[f])

\* C8, as claimed: the endpoints of every transition are steps of the flow, and
\* add_transition with an endpoint that is no step raises the "does not exist"
\* fault and records nothing.
C8_UnknownEndpointRejected ==
  /\ []EdgesBetweenSteps
  /\ [][\A f \in DOMAIN flows :
          (/\ last'.op = "add_transition" /\ last'.id = f
           /\ (last'.arg \notin StepNamesOf(flows[f]) \/ last'.pre \notin StepNamesOf(flows[f])))
            => (last'.fault = "UnknownStep" /\ flows' = flows)]_vars

\* C8, amended: as C8, but on a locked flow the fault raised is the "Flow is
\* locked" one, which add_transition checks first.
C8_UnknownEndpointRejectedUnlessLocked ==
  /\ []EdgesBetweenSteps
  /\ [][\A f \in DOMAIN flows :
          (/\ last'.op = "add_transition" /\ last'.id = f
           /\ (last'.arg \notin StepNamesOf(flows[f]) \/ last'.pre \notin StepNamesOf(flows[f])))
            => /\ last'.fault = (IF flows[f].locked THEN "Locked" ELSE "UnknownStep")
               /\ flows' = flows]_vars

\* a transition from a step to a name that is no step was refused, on a flow
\* that has an edge already
C8_Witness ==
  \E f \in DOMAIN flows :
    /\ last.op = "add_transition" /\ last.id = f /\ last.fault = "UnknownStep"
    /\ last.arg \in StepNamesOf(flows[f])
    /\ last.pre \notin StepNamesOf(flows[f])
    /\ flows[f].edges # {}


\* C29: update_step(name, data) on a flow that has a step of that name returns
\* and leaves that step's data with data[k] for every key k of data and the
\* old value for every other key, and the flow's step names in the same order;
\* with a name that is no step of the flow it raises the unknown-step fault
\* and leaves the flow and every step's data as they were.
C29_UpdateStepMerges ==
  [][(last'.op = "update_step")
       => LET f == last'.id
              d == last'.data
              old == flows[f]
              new == flows'[f]
              hits == {i \in 1..Len(old.steps) : old.steps[i].step_name = last'.arg}
          IN IF hits = {}
               THEN /\ last'.fault = "UnknownStep"
                    /\ flows' = flows
                    /\ defaultData' = defaultData
               ELSE /\ last'.fault = "none"
                    /\ Len(new.steps) = Len(old.steps)
                    /\ \A i \in 1..Len(old.steps) : new.steps[i].step_name = old.steps[i].step_name
                    /\ \A i \in hits :
                         LET before == IF old.steps[i].shared THEN defaultData
                                                              ELSE old.steps[i].step_data
                             after == IF new.steps[i].shared THEN defaultData'
                                                             ELSE new.steps[i].step_data
                         IN /\ DOMAIN after = DOMAIN before \cup DOMAIN d
                            /\ \A k \in DOMAIN d : after[k] = d[k]
                            /\ \A k \in DOMAIN before \ DOMAIN d : after[k] = before[k]]_vars

\* update_step has just overwritten one key of a step's data and kept another,
\* in a flow of two steps
C29_Witness ==
  /\ last.op = "update_step" /\ last.fault = "none"
  /\ Len(flows[last.id].steps) = 2
  /\ \E i \in 1..2 :
       /\ flows[last.id].steps[i].step_name = last.arg
       /\ ~flows[last.id].steps[i].shared
       /\ flows[last.id].steps[i].step_data = [a |-> 2, c |-> 1]

\* C31: update_step(name, data) changes the data of the step called name only:
\* the data of every other step, whether it was added with explicit data or
\* with the default (omitted) data argument, is the same after the call.
C31_UpdateStepFrame ==
  [][(last'.op = "update_step")
       => \A f \in DOMAIN flows : \A i \in 1..Len(flows[f].steps) :
            LET old == flows[f].steps[i]
                new == flows'[f].steps[i]
                before == IF old.shared THEN defaultData ELSE old.step_data
                after == IF new.shared THEN defaultData' ELSE new.step_data
            IN (f # last'.id \/ old.step_name # last'.arg) => after = before]_vars

\* ---------------------------------------------------------- SpecSnapshot
\* flow.py: a client takes d = flow.to_dict(), keeps d, and goes on calling
\* add_step, update_step and update_status on the flow.

\* d = flow.to_dict(), the first dict the client keeps
FlowTakeSnapshot(f) ==
  /\ Live(f)
  /\ taken.flow_id = None
  /\ taken' = FlowToDict(f, flows[f])
  /\ last' = [Call("to_dict", "none", f, "none") EXCEPT !.data = FlowToDict(f, flows[f])]
  /\ UNCHANGED <<ctorVars, facadeVars, flows, defaultData, run, now, dbVars, calls>>

NextSnapshot ==
  \E f \in FlowIds :
    \/ FlowAddStep(f)
    \/ FlowUpdateStep(f)
    \/ FlowSetStatus(f)
    \/ FlowTakeSnapshot(f)

SpecSnapshot == InitFlow /\ [][NextSnapshot]_vars

\* what a client reads in a dict d that to_dict returned: the data of a step
\* is the content of the dict object d holds for it, which is the step's own
\* dict as it is now when it was not copied
ReadSnapshot(d) ==
  [flow_id |-> d.flow_id, flow_name |-> d.flow_name, status |-> d.status,
   steps |-> [i \in 1..Len(d.steps) |->
                [step_name |-> d.steps[i].step_name,
                 step_data |-> IF d.steps[i].copied
                                 THEN d.steps[i].step_data
                                 ELSE StepData(flows[d.flow_id].steps[i])]]]

\* C30: to_dict returns the flow's id, name and status and its steps in
\* insertion order, each with its name and data; the call changes nothing in
\* the flow; and what a dict returned earlier reads as is not changed by any
\* later add_step, update_step or update_status call.
C30_SnapshotPure ==
  [][/\ (last'.op = "to_dict")
          => /\ flows' = flows
             /\ defaultData' = defaultData
             /\ LET f == last'.id
                     d == ReadSnapshot(last.data)'
                 IN /\ d.flow_id = f
                    /\ d.flow_name = flows[f].flow_name
                    /\ d.status = flows[f].status
                    /\ Len(d.steps) = Len(flows[f].steps)
                    /\ \A i \in 1..Len(flows[f].steps) :
                         /\ d.steps[i].step_name = flows[f].steps[i].step_name
                         /\ d.steps[i].step_data = StepData(flows[f].steps[i])
     /\ (taken.flow_id # None) => ReadSnapshot(taken)' = ReadSnapshot(taken)]_vars

\* a dict was taken from a flow, and update_step has since changed the data
\* of a step the dict lists, and add_step and update_status the rest
C30_Witness ==
  /\ taken.flow_id # None
  /\ last.op = "update_step" /\ last.fault = "none"
  /\ Len(taken.steps) = 1
  /\ Len(flows[taken.flow_id].steps) = 2
  /\ taken.steps[1].step_name = last.arg
  /\ taken.steps[1].step_data # StepData(flows[taken.flow_id].steps[1])
  /\ taken.status # flows[taken.flow_id].status

\* --------------------------------------------------------------- SpecRun
\* run.py: one Run object driven through its methods, while the clock runs
\* and the status of one Flow object is updated.

MaxTicks == MaxTime * TicksPerSecond
\* datetime.now().strftime("%Y%m%d-%H%M%S"): the time cut to the second
Strftime(t) == t \div TicksPerSecond
\* metrics a client logs
MetricKeys == {"acc"}
MetricValues == {1, 2}
MetricInputs == {("acc" :> 1), ("acc" :> 2 @@ "loss" :> 1)}

\* Run.__init__(run_id, flow_ref) at time t; run_id NoTime and flow_ref None
\* are the defaults
NewRun(run_id, flow_ref, t) ==
  [run_id |-> IF run_id # NoTime THEN run_id ELSE Strftime(t),
   run_dir |-> "./", metrics |-> EmptyDict, start_time |-> t,
   end_time |-> NoTime, flow_ref |-> flow_ref, status |-> "created",
   _update_status |-> "unset"]

RunResult(f, r) == [fault |-> f, run |-> r]

\* Run.update_status
RunUpdateStatus(r, status) ==
  IF status \notin ValidStatuses
    THEN RunResult("InvalidStatus", r)
    ELSE RunResult("none", [r EXCEPT !.status = status])

\* Run.end_run at time t
RunEndRun(r, t) == RunUpdateStatus([r EXCEPT !.end_time = t], "completed")

\* Run.add_metric (the metrics.json it rewrites is not modelled)
RunAddMetric(r, key, value) ==
  RunResult("none", [r EXCEPT !.metrics = DictUpdate(@, (key :> value))])

\* Run.create_run_dir: sets the attribute _update_status, not status
RunCreateRunDir(r) ==
  RunResult("none", [r EXCEPT !.run_dir = "log_dir/run_id", !._update_status = "Running"])

\* Run.to_dict
RunToDict(r) ==
  [run_id |-> r.run_id, flow_ref |-> r.flow_ref, run_dir |-> r.run_dir,
   metrics |-> r.metrics, start_time |-> r.start_time, end_time |-> r.end_time,
   status |-> r.status]

\* the clock advances
Tick ==
  /\ now < MaxTicks
  /\ now' = now + 1
  /\ UNCHANGED <<ctorVars, facadeVars, entityVars, dbVars, calls, last>>

TheRun == run[1]

RunSetStatus ==
  /\ \E status \in StatusInputs :
       LET r == RunUpdateStatus(TheRun, status) IN
         /\ run' = <<r.run>>
         /\ last' = Call("run.update_status", r.fault, None, status)
  /\ UNCHANGED <<ctorVars, facadeVars, flows, defaultData, now, dbVars, calls, taken>>

RunEnd ==
  /\ LET r == RunEndRun(TheRun, now) IN
       /\ run' = <<r.run>>
       /\ last' = [Call("run.end_run", r.fault, None, "none") EXCEPT !.pre = TheRun.status]
  /\ UNCHANGED <<ctorVars, facadeVars, flows, defaultData, now, dbVars, calls, taken>>

RunMetric ==
  /\ \E key \in MetricKeys, value \in MetricValues :
       LET r == RunAddMetric(TheRun, key, value) IN
         /\ run' = <<r.run>>
         /\ last' = [Call("add_metric", r.fault, None, key) EXCEPT !.ret = value]
  /\ UNCHANGED <<ctorVars, facadeVars, flows, defaultData, now, dbVars, calls, taken>>

RunMakeDir ==
  /\ LET r == RunCreateRunDir(TheRun) IN
       /\ run' = <<r.run>>
       /\ last' = Call("create_run_dir", r.fault, None, "none")
  /\ UNCHANGED <<ctorVars, facadeVars, flows, defaultData, now, dbVars, calls, taken>>

RunSnapshot ==
  /\ last' = [Call("run.to_dict", "none", None, "none") EXCEPT !.data = RunToDict(TheRun)]
  /\ UNCHANGED <<ctorVars, facadeVars, entityVars, now, dbVars, calls>>

\* the client has built one Flow and one Run, with the default run_id
InitRun ==
  /\ _instance = None
  /\ _lock = None
  /\ allocated = 0
  /\ pc = [t \in Threads |-> "idle"]
  /\ obj = [t \in Threads |-> None]
  /\ ret = [t \in Threads |-> None]
  /\ arg = [t \in Threads |-> FALSE]
  /\ _initialized = FALSE
  /\ local_mode = TRUE
  /\ db_driver = FALSE
  /\ _flows = {}
  /\ _runs = EmptyDict
  /\ flows = <<NewFlow(<<"f">>)>>
  /\ defaultData = EmptyDict
  /\ now = 0
  /\ \E flow_ref \in {None, 1} : run = <<NewRun(NoTime, flow_ref, now)>>
  /\ csv = EmptyDict
  /\ db_flows = EmptyDict
  /\ db_runs = EmptyDict
  /\ db_records = {}
  /\ db_dataframes = <<>>
  /\ taken = NoSnapshot
  /\ last = NoCall
  /\ calls = 0

NextRun ==
  \/ Tick
  \/ RunSetStatus
  \/ RunEnd
  \/ RunMetric
  \/ RunMakeDir
  \/ RunSnapshot
  \/ FlowSetStatus(1)

SpecRun == InitRun /\ [][NextRun]_vars

Terminal == {"completed", "failed"}

\* C4: end_run on a run whose status is completed or failed changes neither
\* its status nor its end_time.
C4_EndRunOnTerminalRun ==
  [][(last'.op = "run.end_run" /\ TheRun.status \in Terminal)
       => (run'[1].status = TheRun.status /\ run'[1].end_time = TheRun.end_time)]_vars

\* the edges of created -> running -> {completed, failed}
StatusEdges ==
  {<<"created", "running">>, <<"running", "completed">>, <<"running", "failed">>}

Follows(old, new) == old = new \/ <<old, new>> \in StatusEdges

\* C3: every change of the status of a flow or of a run follows an edge of
\* created -> running -> {completed, failed}: a terminal status is never left
\* and created never changes directly to a terminal status.
C3_StatusFollowsEdges ==
  [][/\ \A f \in DOMAIN flows \cap DOMAIN flows' :
          Follows(flows[f].status, flows'[f].status)
     /\ \A r \in DOMAIN run \cap DOMAIN run' :
          Follows(run[r].status, run'[r].status)]_vars

\* the status of every flow and of every run is one of the four values
StatusesValid ==
  /\ \A f \in DOMAIN flows : flows[f].status \in ValidStatuses
  /\ \A r \in DOMAIN run : run[r].status \in ValidStatuses
  /\ \A r \in DOMAIN _runs : _runs[r].status \in ValidStatuses

\* C9: update_status of a flow or of a run with a value outside {created,
\* running, completed, failed} raises the "Invalid status" fault and leaves the
\* object as it was; the status of every flow and run is always one of the four.
C9_InvalidStatusRejected ==
  /\ []StatusesValid
  /\ [][(/\ last'.op \in {"flow.update_status", "run.update_status"}
          /\ last'.arg \notin ValidStatuses)
           => (last'.fault = "InvalidStatus" /\ flows' = flows /\ run' = run)]_vars

\* an invalid status was refused by a run that has failed, while the flow is
\* completed
C9_Witness ==
  /\ last.op = "run.update_status" /\ last.arg \notin ValidStatuses
  /\ last.fault = "InvalidStatus"
  /\ TheRun.status = "failed"
  /\ flows[1].status = "completed"


\* ------------------------------------------------------------------ Spec
\* logger.py: the initialised singleton driven through its methods, in local
\* mode or in remote mode.  The document store outlives the process: in remote
\* mode it may hold a flow and a run stored earlier.

\* the _id of the flow and of the run an earlier process stored (uuid4 strings)
StoredFlow == 101
StoredRun == 201
\* the ids a client passes: local_flow_ids and strftime run ids in local mode,
\* _ids of the store in remote mode; some of them name nothing
FlowIdInputs == IF local_mode THEN FlowIds ELSE {StoredFlow + i : i \in 0..MaxFlows}
RunIdInputs == IF local_mode THEN 0..MaxTime ELSE {StoredRun, StoredRun + 1}
\* the step name a client passes to the singleton
RecordSteps == {"s1"}

\* the key of a CSV artifact: save_dataframe is called with flow ids and run ids
FlowKey(f) == <<"flow", f>>
RunKey(r) == <<"run", r>>

\* the header line of a CSV artifact, and the one-row frames the singleton's
\* methods save: the row of a status
Header == <<"header">>
StatusRow(status) == <<<<"row", status>>>>

\* df.to_csv(file_path, mode='w', header=True): the file is created, or
\* truncated when it exists, and the header and the rows written
CsvWrite(files, key, rows) ==
  [k \in DOMAIN files \cup {key} |-> IF k = key THEN <<Header>> \o rows ELSE files[k]]

\* df.to_csv(file_path, mode='a', header=False): the rows are written at the
\* end of the file, which is created when it does not exist
CsvAppend(files, key, rows) ==
  [k \in DOMAIN files \cup {key} |->
     IF k # key THEN files[k]
     ELSE IF key \in DOMAIN files THEN files[key] \o rows ELSE rows]

\* MLWorkFlowLogger.save_dataframe: the file <key>_data.csv is appended to
\* without a header when it exists, and written with a header otherwise.
\* files maps the key of each file that exists to its lines.
SaveDataframe(files, key, rows) ==
  IF key \in DOMAIN files THEN CsvAppend(files, key, rows)
                          ELSE CsvWrite(files, key, rows)

\* MongoDBDriver.save_dataframe(run_id, df) takes two arguments; the facade
\* passes three or four, and the call raises before the method body runs
DriverSaveDataframeCall == "TypeError"

\* MongoDBDriver.add_step: step.to_dict() is evaluated for the $push document
\* and StepModel has no to_dict; the fault is logged and raised again
DriverAddStepCall == "AttributeError"

\* the faults a driver call ends with, as the facade's except clause sees them
DriverFaults == {"KeyError", "ValueError", "TypeError", "AttributeError"}

\* MongoDBDriver.save_flow: insert_one of the flow document
DbSaveFlow(fls, id, name) ==
  (id :> [name |-> name, steps |-> <<>>, status |-> "created"]) @@ fls

\* MongoDBDriver._update_run_data: $set of one field, no upsert.  A result
\* of a driver method holds the fault raised, the collection afterwards and
\* io, the operations the method made on the collections of the store.
DbUpdateRunData(runs, run_id, data, key) ==
  IF run_id = None
    THEN [fault |-> "ValueError", runs |-> runs, io |-> <<>>]
    ELSE IF run_id \notin DOMAIN runs
      THEN [fault |-> "KeyError", runs |-> runs, io |-> <<"run_models.update_one">>]
      ELSE [fault |-> "none", io |-> <<"run_models.update_one">>,
            runs |-> IF key = "metrics"
                       THEN [runs EXCEPT ![run_id].metrics = data]
                       ELSE [runs EXCEPT ![run_id].status = data]]

\* MongoDBDriver.save_metrics
DbSaveMetrics(runs, run_id, metrics) ==
  IF DOMAIN metrics = {}
    THEN [fault |-> "ValueError", runs |-> runs, io |-> <<>>]
    ELSE DbUpdateRunData(runs, run_id, metrics, "metrics")

\* MongoDBDriver.update_run_status
DbUpdateRunStatus(runs, run_id, status) ==
  IF run_id = None
    THEN [fault |-> "ValueError", runs |-> runs, io |-> <<>>]
    ELSE IF status = ""
      THEN [fault |-> "ValueError", runs |-> runs, io |-> <<>>]
      ELSE IF run_id \notin DOMAIN runs
        THEN [fault |-> "KeyError", runs |-> runs, io |-> <<"run_models.update_one">>]
        ELSE [fault |-> "none", io |-> <<"run_models.update_one">>,
              runs |-> [runs EXCEPT ![run_id].status = status]]

\* the mutant of DbUpdateFlowStatus: the arguments are not checked
DbUpdateFlowStatus_NoEmptyCheck(fls, flow_id, status) ==
  IF flow_id \notin DOMAIN fls
    THEN [fault |-> "KeyError", flows |-> fls, io |-> <<"flow_models.update_one">>]
    ELSE [fault |-> "none", io |-> <<"flow_models.update_one">>,
          flows |-> [fls EXCEPT ![flow_id].status = status]]

\* MongoDBDriver.update_flow_status
DbUpdateFlowStatus(fls, flow_id, status) ==
  IF flow_id = None
    THEN [fault |-> "ValueError", flows |-> fls, io |-> <<>>]
    ELSE IF status = ""
      THEN [fault |-> "ValueError", flows |-> fls, io |-> <<>>]
      ELSE IF flow_id \notin DOMAIN fls
        THEN [fault |-> "KeyError", flows |-> fls, io |-> <<"flow_models.update_one">>]
        ELSE [fault |-> "none", io |-> <<"flow_models.update_one">>,
              flows |-> [fls EXCEPT ![flow_id].status = status]]

\* MongoDBDriver.save_flow_record: both references must resolve
\* (validate_flow_ref, validate_run_ref) before insert_one
DbSaveFlowRecord(rec) ==
  IF rec.flow_ref \notin DOMAIN db_flows
    THEN [fault |-> "ValueError", io |-> <<"flow_models.find_one">>]
    ELSE IF rec.run_ref \notin DOMAIN db_runs
      THEN [fault |-> "ValueError",
            io |-> <<"flow_models.find_one", "run_models.find_one">>]
      ELSE [fault |-> "none",
            io |-> <<"flow_models.find_one", "run_models.find_one",
                     "flowrecord_models.insert_one">>]

\* Flow.add_step called with a Step object as step_name, as add_new_step does.
\* The duplicate check compares the names of the steps, Step objects too, with
\* the new one; the step is appended; dag.add_node then raises, a dataclass
\* with eq and without frozen being unhashable.
AddStepObject(fl, step) ==
  IF fl.locked
    THEN Result("Locked", fl)
    ELSE IF \E i \in 1..Len(fl.steps) : fl.steps[i].step_name = step
      THEN Result("Duplicate", fl)
      ELSE Result("TypeError", [fl EXCEPT !.steps = Append(@, NewStep(step, TRUE, EmptyDict))])

\* one more call of a method of the singleton
OneCall ==
  /\ calls < MaxCalls
  /\ calls' = calls + 1

\* The client stores a Flow it built in the registry under the flow's id.
\* add_new_flow cannot do it: it reads flow.flow_id, which Flow does not have.
RegisterFlow ==
  /\ local_mode
  /\ Len(flows) < MaxFlows
  /\ flows' = Append(flows, NewFlow(<<"f">>))
  /\ _flows' = _flows \cup {Len(flows) + 1}
  /\ last' = Call("register", "none", Len(flows) + 1, "none")
  /\ UNCHANGED <<ctorVars, _initialized, local_mode, db_driver, _runs>>
  /\ UNCHANGED <<defaultData, run, now, dbVars, calls, taken>>

\* MLWorkFlowLogger.add_new_flow.  In local mode Flow(flow_name) is built and
\* flow.flow_id raises AttributeError.  In remote mode FlowModel(name=...)
\* validates the name, the document is inserted under a new uuid and the
\* driver's save_dataframe fault is logged.
AddNewFlow(flow_name) ==
  /\ OneCall
  /\ IF local_mode
       THEN /\ last' = [Call("add_new_flow", "AttributeError", None, "none")
                          EXCEPT !.data = flow_name]
            /\ UNCHANGED db_flows
       ELSE IF Strip(flow_name) = <<>>
              THEN /\ last' = [Call("add_new_flow", "ValidationError", None, "none")
                                 EXCEPT !.data = flow_name]
                   /\ UNCHANGED db_flows
              ELSE LET id == StoredFlow + Cardinality(DOMAIN db_flows) IN
                     /\ Cardinality(DOMAIN db_flows) < MaxFlows
                     /\ db_flows' = DbSaveFlow(db_flows, id, flow_name)
                     /\ last' = [Call("add_new_flow", "none", id, "none")
                                   EXCEPT !.data = flow_name,
                                          !.pre = DriverSaveDataframeCall]
  /\ UNCHANGED <<ctorVars, facadeVars, entityVars, now, csv, db_runs, db_records, db_dataframes>>

\* MLWorkFlowLogger.add_new_step.  In local mode the Step object is passed to
\* Flow.add_step as the step's name; in remote mode the driver's fault is logged.
AddNewStep(flow_id, step_name, step_data) ==
  /\ OneCall
  /\ IF local_mode
       THEN IF flow_id \notin _flows
              THEN /\ last' = Call("add_new_step", "KeyError", flow_id, step_name)
                   /\ UNCHANGED flows
              ELSE LET r == AddStepObject(flows[flow_id],
                                          [step_name |-> step_name, step_data |-> step_data])
                   IN /\ Len(r.flow.steps) <= MaxSteps
                      /\ flows' = [flows EXCEPT ![flow_id] = r.flow]
                      /\ last' = Call("add_new_step", r.fault, flow_id, step_name)
       ELSE /\ last' = [Call("add_new_step", "none", flow_id, step_name)
                          EXCEPT !.pre = DriverAddStepCall]
            /\ UNCHANGED flows
  /\ UNCHANGED <<ctorVars, facadeVars, defaultData, run, now, dbVars, taken>>

\* the mutant of StartNewRun: the flow is not looked up
StartNewRun_NoLookup(flow_id) ==
  /\ OneCall
  /\ LET r == NewRun(NoTime, flow_id, now) IN
       /\ _runs' = (r.run_id :> r) @@ _runs
       /\ csv' = SaveDataframe(csv, RunKey(r.run_id), StatusRow("created"))
       /\ last' = [Call("start_new_run", "none", flow_id, "none") EXCEPT !.ret = r.run_id]
  /\ UNCHANGED <<ctorVars, _initialized, local_mode, db_driver, _flows>>
  /\ UNCHANGED <<entityVars, now, db_flows, db_runs, db_records, db_dataframes>>

\* MLWorkFlowLogger.start_new_run.  In remote mode RunModel(flow_ref=flow_id)
\* raises: flow_ref is declared Optional[FlowModel] and flow_id is a string.
StartNewRun(flow_id) ==
  /\ OneCall
  /\ IF local_mode
       THEN IF flow_id \notin _flows
              THEN /\ last' = Call("start_new_run", "KeyError", flow_id, "none")
                   /\ UNCHANGED <<_runs, flows, csv>>
              ELSE LET r == NewRun(NoTime, flow_id, now) IN
                     /\ _runs' = (r.run_id :> r) @@ _runs
                     /\ flows' = [flows EXCEPT ![flow_id] = FlowUpdateStatus(@, "running").flow]
                     /\ csv' = SaveDataframe(csv, RunKey(r.run_id), StatusRow("created"))
                     /\ last' = [Call("start_new_run", "none", flow_id, "none")
                                   EXCEPT !.ret = r.run_id,
                                          !.pre = IF r.run_id \in DOMAIN _runs
                                                    THEN "replaced" ELSE "fresh"]
       ELSE /\ last' = Call("start_new_run", "ValidationError", flow_id, "none")
            /\ UNCHANGED <<_runs, flows, csv>>
  /\ UNCHANGED <<ctorVars, _initialized, local_mode, db_driver, _flows>>
  /\ UNCHANGED <<defaultData, run, now, db_flows, db_runs, db_records, taken, db_dataframes>>

\* MLWorkFlowLogger.log_metrics: nothing in local mode; in remote mode the
\* driver's faults are logged and the call returns
LogMetrics(flow_id, run_id, metrics) ==
  /\ OneCall
  /\ IF local_mode
       THEN /\ last' = [Call("log_metrics", "none", None, "none")
                          EXCEPT !.run = run_id, !.data = metrics]
            /\ UNCHANGED db_runs
       ELSE LET r == DbSaveMetrics(db_runs, run_id, metrics) IN
              /\ db_runs' = r.runs
              /\ last' = [Call("log_metrics", "none", None, "none")
                            EXCEPT !.run = run_id, !.data = metrics,
                                   !.pre = IF r.fault = "none"
                                             THEN DriverSaveDataframeCall ELSE r.fault]
  /\ UNCHANGED <<ctorVars, facadeVars, entityVars, now, csv, db_flows, db_records, db_dataframes>>

\* MLWorkFlowLogger.save_flow_record: nothing in local mode; in remote mode
\* the record is stored and the run's status set to "Running"
SaveFlowRecord(flow_id, run_id, step_name) ==
  /\ OneCall
  /\ IF local_mode
       THEN /\ last' = [Call("save_flow_record", "none", None, "none")
                          EXCEPT !.run = run_id]
            /\ UNCHANGED <<db_runs, db_records>>
       ELSE LET rec == [flow_ref |-> flow_id, run_ref |-> run_id, step_name |-> step_name]
                f1 == DbSaveFlowRecord(rec).fault
                r == DbUpdateRunStatus(db_runs, run_id, "Running")
            IN /\ db_records' = IF f1 = "none" THEN db_records \cup {rec} ELSE db_records
               /\ db_runs' = IF f1 = "none" THEN r.runs ELSE db_runs
               /\ last' = [Call("save_flow_record", "none", None, "none")
                             EXCEPT !.run = run_id,
                                    !.pre = IF f1 # "none" THEN f1
                                            ELSE IF r.fault # "none" THEN r.fault
                                            ELSE DriverSaveDataframeCall]
  /\ UNCHANGED <<ctorVars, facadeVars, entityVars, now, csv, db_flows, db_dataframes>>

\* MLWorkFlowLogger.end_run
EndRun(flow_id, run_id) ==
  /\ OneCall
  /\ IF local_mode
       THEN IF run_id \notin DOMAIN _runs
              THEN /\ last' = [Call("end_run", "KeyError", None, "none") EXCEPT !.run = run_id]
                   /\ UNCHANGED <<_runs, csv, db_runs>>
              ELSE LET r == RunUpdateStatus(_runs[run_id], "completed") IN
                     /\ _runs' = [_runs EXCEPT ![run_id] = r.run]
                     /\ csv' = SaveDataframe(csv, RunKey(run_id), StatusRow("completed"))
                     /\ last' = [Call("end_run", r.fault, None, "none") EXCEPT !.run = run_id]
                     /\ UNCHANGED db_runs
       ELSE LET r == DbUpdateRunStatus(db_runs, run_id, "completed") IN
              /\ db_runs' = r.runs
              /\ last' = [Call("end_run", "none", None, "none")
                            EXCEPT !.run = run_id,
                                   !.pre = IF r.fault = "none"
                                             THEN DriverSaveDataframeCall ELSE r.fault]
              /\ UNCHANGED <<_runs, csv>>
  /\ UNCHANGED <<ctorVars, _initialized, local_mode, db_driver, _flows>>
  /\ UNCHANGED <<entityVars, now, db_flows, db_records, db_dataframes>>

\* the mutant of EndFlow: in local mode the runs of the flow are completed too
EndFlow_Cascade(flow_id) ==
  /\ OneCall
  /\ IF local_mode
       THEN IF flow_id \notin _flows
              THEN /\ last' = Call("end_flow", "KeyError", flow_id, "none")
                   /\ UNCHANGED <<flows, _runs, csv, db_flows>>
              ELSE LET r == FlowUpdateStatus(flows[flow_id], "completed") IN
                     /\ flows' = [flows EXCEPT ![flow_id] = r.flow]
                     /\ _runs' = [k \in DOMAIN _runs |->
                                    IF _runs[k].flow_ref = flow_id
                                      THEN [_runs[k] EXCEPT !.status = "completed"]
                                      ELSE _runs[k]]
                     /\ csv' = SaveDataframe(csv, FlowKey(flow_id), StatusRow("completed"))
                     /\ last' = Call("end_flow", r.fault, flow_id, "none")
                     /\ UNCHANGED db_flows
       ELSE LET r == DbUpdateFlowStatus(db_flows, flow_id, "completed") IN
              /\ db_flows' = r.flows
              /\ last' = [Call("end_flow", "none", flow_id, "none")
                            EXCEPT !.pre = IF r.fault = "none"
                                             THEN DriverSaveDataframeCall ELSE r.fault]
              /\ UNCHANGED <<flows, _runs, csv>>
  /\ UNCHANGED <<ctorVars, _initialized, local_mode, db_driver, _flows>>
  /\ UNCHANGED <<defaultData, run, now, db_runs, db_records, taken, db_dataframes>>

\* MLWorkFlowLogger.end_flow
EndFlow(flow_id) ==
  /\ OneCall
  /\ IF local_mode
       THEN IF flow_id \notin _flows
              THEN /\ last' = Call("end_flow", "KeyError", flow_id, "none")
                   /\ UNCHANGED <<flows, csv, db_flows>>
              ELSE LET r == FlowUpdateStatus(flows[flow_id], "completed") IN
                     /\ flows' = [flows EXCEPT ![flow_id] = r.flow]
                     /\ csv' = SaveDataframe(csv, FlowKey(flow_id), StatusRow("completed"))
                     /\ last' = Call("end_flow", r.fault, flow_id, "none")
                     /\ UNCHANGED db_flows
       ELSE LET r == DbUpdateFlowStatus(db_flows, flow_id, "completed") IN
              /\ db_flows' = r.flows
              /\ last' = [Call("end_flow", "none", flow_id, "none")
                            EXCEPT !.pre = IF r.fault = "none"
                                             THEN DriverSaveDataframeCall ELSE r.fault]
              /\ UNCHANGED <<flows, csv>>
  /\ UNCHANGED <<ctorVars, facadeVars, defaultData, run, now, db_runs, db_records, taken, db_dataframes>>

\* the singleton after MLWorkFlowLogger() or MLWorkFlowLogger(db_driver_config)
Init ==
  /\ _instance = 1
  /\ _lock = None
  /\ allocated = 1
  /\ pc = [t \in Threads |-> "idle"]
  /\ obj = [t \in Threads |-> None]
  /\ ret = [t \in Threads |-> None]
  /\ arg = [t \in Threads |-> FALSE]
  /\ _initialized = TRUE
  /\ local_mode \in BOOLEAN
  /\ db_driver = ~local_mode
  /\ _flows = {}
  /\ _runs = EmptyDict
  /\ flows = <<>>
  /\ defaultData = EmptyDict
  /\ run = <<>>
  /\ now = 0
  /\ csv = EmptyDict
  /\ \/ db_flows = EmptyDict /\ db_runs = EmptyDict
     \/ /\ ~local_mode
        /\ db_flows = DbSaveFlow(EmptyDict, StoredFlow, <<"f">>)
        /\ db_runs = (StoredRun :> [flow_ref |-> StoredFlow, status |-> "created",
                                    metrics |-> EmptyDict])
  /\ db_records = {}
  /\ db_dataframes = <<>>
  /\ taken = NoSnapshot
  /\ last = NoCall
  /\ calls = 0

Next ==
  \/ Tick
  \/ RegisterFlow
  \/ \E flow_name \in FlowNames : AddNewFlow(flow_name)
  \/ \E flow_id \in FlowIdInputs, step_name \in RecordSteps, step_data \in DataInputs :
       AddNewStep(flow_id, step_name, step_data)
  \/ \E flow_id \in FlowIdInputs : StartNewRun(flow_id)
  \/ \E flow_id \in FlowIdInputs, run_id \in RunIdInputs, m \in MetricInputs :
       LogMetrics(flow_id, run_id, m)
  \/ \E flow_id \in FlowIdInputs, run_id \in RunIdInputs, step_name \in RecordSteps :
       SaveFlowRecord(flow_id, run_id, step_name)
  \/ \E flow_id \in FlowIdInputs, run_id \in RunIdInputs : EndRun(flow_id, run_id)
  \/ \E flow_id \in FlowIdInputs : EndFlow(flow_id)

Spec == Init /\ [][Next]_vars

\* C2: start_new_run on a registered flow returns a run id that was no key of
\* the run registry before the call, so that no registered run is replaced, and
\* leaves the flow's status running.
C2_StartRunFreshId ==
  [][(last'.op = "start_new_run" /\ last'.id \in _flows)
       => /\ last'.fault = "none"
          /\ last'.ret \notin DOMAIN _runs
          /\ \A r \in DOMAIN _runs : _runs'[r] = _runs[r]
          /\ flows'[last'.id].status = "running"]_vars

\* C10: after log_metrics(F, r, m) on a registered run r, the run's in-memory
\* metrics hold m[k] for every key k of m.
C10_LogMetricsMerges ==
  (last.op = "log_metrics" /\ last.run \in DOMAIN _runs)
    => \A k \in DOMAIN last.data :
         /\ k \in DOMAIN _runs[last.run].metrics
         /\ _runs[last.run].metrics[k] = last.data[k]

\* a flow id, a run id that names something: a key of the registry in local
\* mode, a document of the store in remote mode
FlowKnown(f) == IF local_mode THEN f \in _flows ELSE f \in DOMAIN db_flows
RunKnown(r) == IF local_mode THEN r \in DOMAIN _runs ELSE r \in DOMAIN db_runs

\* C11: add_new_step and end_flow with a flow id that names nothing, and
\* log_metrics, save_flow_record and end_run with a run id that names nothing,
\* raise the not-found fault to the caller, in local and in remote mode, and
\* write no file and no document.
C11_UnknownIdRaises ==
  [][(\/ last'.op \in {"add_new_step", "end_flow"} /\ ~FlowKnown(last'.id)
      \/ last'.op \in {"log_metrics", "save_flow_record", "end_run"} /\ ~RunKnown(last'.run))
       => (last'.fault = "KeyError" /\ csv' = csv /\ db_runs' = db_runs
           /\ db_flows' = db_flows /\ db_records' = db_records)]_vars

C13_DriverFaultsSurface ==
  (~local_mode /\ last.pre \in DriverFaults) => last.fault # "none"

\* C16: add_new_flow(flow_name) with a name that is not blank returns a new
\* id under which a flow named flow_name is registered, with status created,
\* no steps and not locked: in the flow registry in local mode, in the store in
\* remote mode; the flows registered before are unchanged.
C16_AddNewFlowRegisters ==
  [][(last'.op = "add_new_flow" /\ Strip(last'.data) # <<>>)
       => /\ last'.fault = "none"
          /\ IF local_mode
               THEN /\ last'.id \in _flows' /\ last'.id \notin _flows
                    /\ flows'[last'.id] = NewFlow(last'.data)
                    /\ \A f \in _flows : f \in _flows' /\ flows'[f] = flows[f]
               ELSE /\ last'.id \in DOMAIN db_flows' /\ last'.id \notin DOMAIN db_flows
                    /\ db_flows'[last'.id].name = last'.data
                    /\ db_flows'[last'.id].status = "created"
                    /\ db_flows'[last'.id].steps = <<>>
                    /\ \A f \in DOMAIN db_flows : db_flows'[f] = db_flows[f]]_vars

\* C17: in local mode add_new_flow with the name of a registered flow raises
\* the duplicate fault and leaves the flow registry unchanged.
C17_DuplicateFlowRejected ==
  [][(/\ last'.op = "add_new_flow" /\ local_mode
      /\ \E f \in _flows : flows[f].flow_name = last'.data)
       => (last'.fault = "Duplicate" /\ _flows' = _flows /\ flows' = flows)]_vars

\* C18: after end_run(F, r) returned for a registered run r, r's status is
\* completed and its end_time is set; the end_time of every run is unset or not
\* earlier than its start_time.
C18_EndRunSetsEndTime ==
  /\ (last.op = "end_run" /\ last.fault = "none" /\ last.run \in DOMAIN _runs)
       => (_runs[last.run].status = "completed" /\ _runs[last.run].end_time # NoTime)
  /\ \A r \in DOMAIN _runs :
       _runs[r].end_time = NoTime \/ _runs[r].end_time >= _runs[r].start_time

\* C19: in local mode save_flow_record raises the not-supported fault to the
\* caller, for every argument combination.
C19_LocalSaveFlowRecordRaises ==
  (last.op = "save_flow_record" /\ local_mode) => last.fault = "NotSupported"

\* C20: every status the store holds for a run or a flow is one of created,
\* running, completed, failed.
C20_StoredStatusesValid ==
  /\ \A r \in DOMAIN db_runs : db_runs[r].status \in ValidStatuses
  /\ \A f \in DOMAIN db_flows : db_flows[f].status \in ValidStatuses

\* C21: a flow document is handed to the driver, or a flow snapshot to the CSV
\* artifacts, only for a flow that passes validate() at that moment: its name
\* is not blank and it has at least one step.
C21_PersistedFlowValidates ==
  [][(last'.op = "add_new_flow" /\ (db_flows' # db_flows \/ csv' # csv))
       => /\ last'.id \in DOMAIN db_flows'
          /\ LET d == db_flows'[last'.id] IN
               Validate([NewFlow(d.name) EXCEPT !.steps = d.steps]).fault = "none"]_vars


\* C25: in remote mode log_metrics(F, r, m) on a stored run r leaves the
\* stored metrics of r with m[k] for every key k of m and with the value they
\* had for every other key: successive calls merge per key.
C25_RemoteMetricsMerge ==
  [][(/\ last'.op = "log_metrics" /\ ~local_mode
      /\ last'.run \in DOMAIN db_runs /\ DOMAIN last'.data # {})
       => db_runs'[last'.run].metrics =
            DictUpdate(db_runs[last'.run].metrics, last'.data)]_vars

\* C26: in local and in remote mode start_new_run(flow_id) on a flow id that
\* names a flow returns a run id; after it returned, that id is a key of the
\* run registry, mapped to a run with status created and flow_ref flow_id,
\* and in remote mode the driver's save_new_run has stored that run.
C26_StartRunRegisters ==
  (last.op = "start_new_run" /\ FlowKnown(last.id))
    => /\ last.fault = "none"
       /\ last.ret \in DOMAIN _runs
       /\ _runs[last.ret].status = "created"
       /\ _runs[last.ret].flow_ref = last.id
       /\ (~local_mode) => last.ret \in DOMAIN db_runs

\* every registered run refers to a registered flow
RunsReferToFlows == \A r \in DOMAIN _runs : _runs[r].flow_ref \in _flows

\* C36: in local mode every run of the run registry has a flow_ref that is a
\* key of the flow registry, in every reachable state, and no operation
\* removes a key from the flow registry or from the run registry.
C36_RegistriesGrow ==
  /\ [](local_mode => RunsReferToFlows)
  /\ [][local_mode => /\ _flows \subseteq _flows'
                       /\ DOMAIN _runs \subseteq DOMAIN _runs']_vars

\* two flows are registered and a run of the second one has been completed
C36_Witness ==
  /\ local_mode
  /\ Cardinality(_flows) = 2
  /\ \E r \in DOMAIN _runs : _runs[r].flow_ref = 2 /\ _runs[r].status = "completed"
  /\ last.op = "end_run" /\ last.fault = "none"

Client == 1

\* the client is between two calls
AtRest == pc[Client] \in {"idle", "done", "raised"}

\* the client is between two calls and the singleton in local mode
LocalAtRest == AtRest /\ local_mode

\* MLWorkFlowLogger(...) or MLWorkFlowLogger(db_driver_config), called once more
ConstructAgain(t) ==
  /\ pc[t] \in {"idle", "done", "raised"}
  /\ \E c \in BOOLEAN : arg' = [arg EXCEPT ![t] = c]
  /\ pc' = [pc EXCEPT ![t] = "new_check1"]
  /\ obj' = [obj EXCEPT ![t] = None]
  /\ ret' = [ret EXCEPT ![t] = None]
  /\ last' = Call("__init__", "none", None, "none")
  /\ UNCHANGED <<_instance, _lock, allocated>>
  /\ UNCHANGED <<facadeVars, entityVars, now, dbVars, calls>>

InitLocal == Init /\ local_mode

NextReinit ==
  \/ ConstructAgain(Client)
  \/ NewCheck1(Client)
  \/ NewReturn(Client)
  \/ InitLock(Client)
  \/ InitBody(Client)
  \/ InitUnlock(Client)
  \/ LocalAtRest /\ Tick
  \/ LocalAtRest /\ RegisterFlow
  \/ LocalAtRest /\ \E flow_id \in FlowIdInputs : StartNewRun(flow_id)
  \/ LocalAtRest /\ \E flow_id \in FlowIdInputs, run_id \in RunIdInputs : EndRun(flow_id, run_id)

SpecReinit == InitLocal /\ [][NextReinit]_vars

\* C32: a constructor call on the initialised singleton, with or without a
\* configuration, resets nothing: from the call to its return or raise,
\* _flows, _runs and the status, steps and metrics of every flow and run
\* stay as they were, and _initialized stays True.
C32_ConstructorKeepsState ==
  [][(_initialized /\ (~AtRest \/ pc'[Client] # pc[Client]))
       => /\ _flows' = _flows
          /\ _runs' = _runs
          /\ flows' = flows
          /\ defaultData' = defaultData
          /\ _initialized']_vars

\* a constructor call with a configuration has returned on the singleton that
\* holds a registered flow in status running and a completed run
C32_Witness ==
  /\ pc[Client] = "done" /\ arg[Client] /\ last.op = "__init__"
  /\ \E f \in _flows : flows[f].status = "running"
  /\ \E r \in DOMAIN _runs : _runs[r].status = "completed"

\* C34: when the driver's setup raises in a constructor call with a
\* configuration on the initialised local-mode singleton, the singleton stays
\* in local mode with no driver and with its registries as they were, the
\* exception reaches the caller (the lock is released on the way), and the
\* local-mode operations called afterwards work on those registries:
\* start_new_run on a registered flow adds a run and keeps every other run,
\* and end_run on a registered run completes it.
C34_FailedTransitionKeepsLocal ==
  [][/\ (pc[Client] = "init_body" /\ pc'[Client] = "init_raise")
          => /\ arg[Client] /\ local_mode
             /\ local_mode' /\ ~db_driver'
             /\ _flows' = _flows /\ _runs' = _runs /\ flows' = flows
     /\ (pc[Client] = "init_raise" /\ pc'[Client] # "init_raise")
          => pc'[Client] = "raised" /\ _lock' = None /\ UNCHANGED facadeVars
     /\ (pc[Client] = "raised" /\ calls' # calls)
          => /\ pc'[Client] = "raised" /\ local_mode' /\ _flows' = _flows
             /\ (last'.op = "start_new_run" /\ last'.id \in _flows)
                  => /\ last'.fault = "none"
                     /\ DOMAIN _runs' = DOMAIN _runs \cup {last'.ret}
                     /\ _runs'[last'.ret].flow_ref = last'.id
                     /\ \A r \in DOMAIN _runs \ {last'.ret} : _runs'[r] = _runs[r]
             /\ (last'.op = "end_run" /\ last'.run \in DOMAIN _runs)
                  => /\ last'.fault = "none"
                     /\ _runs'[last'.run].status = "completed"]_vars

\* after the constructor call raised in the driver's setup, the client has
\* completed a run of the local-mode singleton, which holds two runs
C34_Witness ==
  /\ pc[Client] = "raised" /\ arg[Client]
  /\ local_mode /\ ~db_driver
  /\ last.op = "end_run" /\ last.fault = "none"
  /\ _runs[last.run].status = "completed"
  /\ Cardinality(DOMAIN _runs) = 2

\* -------------------------------------------------------- SpecTransition
\* logger.py: threads hold the initialised local-mode singleton.  Some call
\* the constructor with a configuration, others call end_run, which takes no
\* lock; a thread may be preempted between any two statements.  end_run
\* stands for every operation that tests self.local_mode and, on the remote
\* branch, self.db_driver (start_new_run tests it at lines 195-197).

\* MLWorkFlowLogger(db_driver_config=config); __new__ returns the singleton
TransitionCall(t) ==
  /\ pc[t] = "idle"
  /\ arg' = [arg EXCEPT ![t] = TRUE]
  /\ ret' = [ret EXCEPT ![t] = _instance]
  /\ pc' = [pc EXCEPT ![t] = "init_lock"]
  /\ UNCHANGED <<_instance, _lock, allocated, obj>>
  /\ UNCHANGED <<facadeVars, entityVars, now, dbVars, calls, last>>

\* lines 46-48: if getattr(self, "_initialized", False), and
\* if db_driver_config and self.local_mode; otherwise return at line 54
InitCheck(t) ==
  /\ pc[t] = "init_body"
  /\ _initialized
  /\ pc' = [pc EXCEPT ![t] = IF arg[t] /\ local_mode THEN "init_51" ELSE "init_unlock"]
  /\ UNCHANGED <<_instance, _lock, allocated, obj, ret, arg>>
  /\ UNCHANGED <<facadeVars, entityVars, now, dbVars, calls, last>>

\* the mutant of InitTransition: the mode is switched first and the driver
\* set up afterwards
InitTransition_ModeFirst(t, ok) ==
  /\ \/ /\ pc[t] = "init_51"
        /\ ok
        /\ local_mode' = FALSE
        /\ pc' = [pc EXCEPT ![t] = "init_52"]
        /\ UNCHANGED db_driver
     \/ /\ pc[t] = "init_52"
        /\ IF ok
             THEN /\ db_driver' = TRUE
                  /\ pc' = [pc EXCEPT ![t] = "init_unlock"]
             ELSE /\ UNCHANGED db_driver
                  /\ pc' = [pc EXCEPT ![t] = "init_raise"]
        /\ UNCHANGED local_mode
  /\ UNCHANGED <<_initialized, _flows, _runs>>
  /\ UNCHANGED <<_instance, _lock, allocated, obj, ret, arg>>
  /\ UNCHANGED <<entityVars, now, dbVars, calls, last>>

\* line 51: self.db_driver = self._setup_driver(db_driver_config), which
\* assigns when MongoDBDriver(config) returned (ok) and raises otherwise;
\* line 52: self.local_mode = False
InitTransition(t, ok) ==
  /\ \/ /\ pc[t] = "init_51"
        /\ IF ok
             THEN /\ db_driver' = TRUE
                  /\ pc' = [pc EXCEPT ![t] = "init_52"]
             ELSE /\ UNCHANGED db_driver
                  /\ pc' = [pc EXCEPT ![t] = "init_raise"]
        /\ UNCHANGED local_mode
     \/ /\ pc[t] = "init_52"
        /\ ok
        /\ local_mode' = FALSE
        /\ pc' = [pc EXCEPT ![t] = "init_unlock"]
        /\ UNCHANGED db_driver
  /\ UNCHANGED <<_initialized, _flows, _runs>>
  /\ UNCHANGED <<_instance, _lock, allocated, obj, ret, arg>>
  /\ UNCHANGED <<entityVars, now, dbVars, calls, last>>

\* a thread calls end_run
OperationCall(t) ==
  /\ pc[t] = "idle"
  /\ pc' = [pc EXCEPT ![t] = "op_mode"]
  /\ UNCHANGED <<_instance, _lock, allocated, obj, ret, arg>>
  /\ UNCHANGED <<facadeVars, entityVars, now, dbVars, calls, last>>

\* line 279: if self.local_mode
OpReadMode(t) ==
  /\ pc[t] = "op_mode"
  /\ pc' = [pc EXCEPT ![t] = IF local_mode THEN "op_local" ELSE "op_driver"]
  /\ UNCHANGED <<_instance, _lock, allocated, obj, ret, arg>>
  /\ UNCHANGED <<facadeVars, entityVars, now, dbVars, calls, last>>

\* lines 291-293: if self.db_driver is None: raise AttributeError("Database
\* driver is not initialized."); otherwise the driver is called
OpReadDriver(t) ==
  /\ pc[t] = "op_driver"
  /\ pc' = [pc EXCEPT ![t] = IF db_driver THEN "op_remote" ELSE "op_no_driver"]
  /\ UNCHANGED <<_instance, _lock, allocated, obj, ret, arg>>
  /\ UNCHANGED <<facadeVars, entityVars, now, dbVars, calls, last>>

NextTransition ==
  \E t \in Threads :
    \/ TransitionCall(t)
    \/ InitLock(t)
    \/ InitCheck(t)
    \/ \E ok \in BOOLEAN : InitTransition(t, ok)
    \/ InitUnlock(t)
    \/ OperationCall(t)
    \/ OpReadMode(t)
    \/ OpReadDriver(t)

SpecTransition == InitLocal /\ [][NextTransition]_vars

\* C35: while a thread performs the transition to remote mode inside the
\* constructor, an operation of another thread that has read local_mode as
\* False reads a set db_driver afterwards: no thread ever takes the
\* "Database driver is not initialized" path.
C35_RemoteSeesDriver ==
  \A t \in Threads :
    /\ pc[t] # "op_no_driver"
    /\ pc[t] = "op_driver" => db_driver

\* a thread is still inside the constructor, past line 52 and holding the
\* lock, and an operation of another thread has taken the remote branch and
\* found the driver
C35_Witness ==
  \E t, u \in Threads :
    /\ pc[t] = "init_unlock" /\ arg[t] /\ _lock = t
    /\ pc[u] = "op_remote"

\* ----------------------------------------------------------- SpecThreads
\* logger.py: threads call start_new_run and end_run of the local-mode
\* singleton concurrently; a thread may be preempted between any two
\* statements.  No method takes a lock.  Here run is the heap of Run objects,
\* _runs maps a run id to the object's index in it, obj[t] is the object
\* thread t's local variable run refers to, arg[t] is the run_id it passed and
\* ret[t] the object whose id its start_new_run returned.

\* a thread calls start_new_run(flow_id) for the registered flow
ThreadCallStart(t) ==
  /\ pc[t] = "idle"
  /\ pc' = [pc EXCEPT ![t] = "snr_get"]
  /\ UNCHANGED <<_instance, _lock, allocated, obj, ret, arg>>
  /\ UNCHANGED <<facadeVars, entityVars, now, dbVars, calls, last>>

\* lines 177-180: flow = self._flows.get(flow_id), KeyError when it is None
SnrGet(t) ==
  /\ pc[t] = "snr_get"
  /\ pc' = [pc EXCEPT ![t] = IF 1 \in _flows THEN "snr_new" ELSE "raised"]
  /\ UNCHANGED <<_instance, _lock, allocated, obj, ret, arg>>
  /\ UNCHANGED <<facadeVars, entityVars, now, dbVars, calls, last>>

\* lines 182-183: run = Run(flow_ref=flow_id)
SnrNew(t) ==
  /\ pc[t] = "snr_new"
  /\ run' = Append(run, NewRun(NoTime, 1, now))
  /\ obj' = [obj EXCEPT ![t] = Len(run) + 1]
  /\ pc' = [pc EXCEPT ![t] = "snr_store"]
  /\ UNCHANGED <<_instance, _lock, allocated, ret, arg>>
  /\ UNCHANGED <<facadeVars, flows, defaultData, now, dbVars, calls, last, taken>>

\* line 184: self._runs[run_dict["run_id"]] = run
SnrStore(t) ==
  /\ pc[t] = "snr_store"
  /\ _runs' = (run[obj[t]].run_id :> obj[t]) @@ _runs
  /\ pc' = [pc EXCEPT ![t] = "snr_status"]
  /\ UNCHANGED <<_instance, _lock, allocated, obj, ret, arg>>
  /\ UNCHANGED <<_initialized, local_mode, db_driver, _flows>>
  /\ UNCHANGED <<entityVars, now, dbVars, calls, last>>

\* line 185: flow.update_status("running")
SnrStatus(t) ==
  /\ pc[t] = "snr_status"
  /\ flows' = [flows EXCEPT ![1] = FlowUpdateStatus(@, "running").flow]
  /\ pc' = [pc EXCEPT ![t] = "snr_save"]
  /\ UNCHANGED <<_instance, _lock, allocated, obj, ret, arg>>
  /\ UNCHANGED <<facadeVars, defaultData, run, now, dbVars, calls, last, taken>>

\* lines 186-190: self.save_dataframe(run_id, run_df)
SnrSave(t) ==
  /\ pc[t] = "snr_save"
  /\ csv' = SaveDataframe(csv, RunKey(run[obj[t]].run_id), StatusRow("created"))
  /\ pc' = [pc EXCEPT ![t] = "snr_ret"]
  /\ UNCHANGED <<_instance, _lock, allocated, obj, ret, arg>>
  /\ UNCHANGED <<facadeVars, entityVars, now, db_flows, db_runs, db_records, calls, last, db_dataframes>>

\* line 191: return run_dict["run_id"]
SnrReturn(t) ==
  /\ pc[t] = "snr_ret"
  /\ ret' = [ret EXCEPT ![t] = obj[t]]
  /\ pc' = [pc EXCEPT ![t] = "done"]
  /\ UNCHANGED <<_instance, _lock, allocated, obj, arg>>
  /\ UNCHANGED <<facadeVars, entityVars, now, dbVars, calls, last>>

\* a thread calls end_run(flow_id, run_id)
ThreadCallEnd(t) ==
  /\ pc[t] = "idle"
  /\ \E run_id \in 0..MaxTime : arg' = [arg EXCEPT ![t] = run_id]
  /\ pc' = [pc EXCEPT ![t] = "er_get"]
  /\ UNCHANGED <<_instance, _lock, allocated, obj, ret>>
  /\ UNCHANGED <<facadeVars, entityVars, now, dbVars, calls, last>>

\* lines 280-283: run = self._runs.get(run_id), KeyError when it is None
ErGet(t) ==
  /\ pc[t] = "er_get"
  /\ IF arg[t] \in DOMAIN _runs
       THEN /\ obj' = [obj EXCEPT ![t] = _runs[arg[t]]]
            /\ pc' = [pc EXCEPT ![t] = "er_status"]
       ELSE /\ UNCHANGED obj
            /\ pc' = [pc EXCEPT ![t] = "raised"]
  /\ UNCHANGED <<_instance, _lock, allocated, ret, arg>>
  /\ UNCHANGED <<facadeVars, entityVars, now, dbVars, calls, last>>

\* line 284: run.update_status("completed")
ErStatus(t) ==
  /\ pc[t] = "er_status"
  /\ run' = [run EXCEPT ![obj[t]] = RunUpdateStatus(@, "completed").run]
  /\ pc' = [pc EXCEPT ![t] = "er_save"]
  /\ UNCHANGED <<_instance, _lock, allocated, obj, ret, arg>>
  /\ UNCHANGED <<facadeVars, flows, defaultData, now, dbVars, calls, last, taken>>

\* lines 285-289: self.save_dataframe(run_id, end_run_df), and the return
ErSave(t) ==
  /\ pc[t] = "er_save"
  /\ csv' = SaveDataframe(csv, RunKey(arg[t]), StatusRow("completed"))
  /\ pc' = [pc EXCEPT ![t] = "done"]
  /\ UNCHANGED <<_instance, _lock, allocated, obj, ret, arg>>
  /\ UNCHANGED <<facadeVars, entityVars, now, db_flows, db_runs, db_records, calls, last, db_dataframes>>

\* the local-mode singleton with one flow in its registry, no thread in a call
InitThreads ==
  /\ _instance = 1
  /\ _lock = None
  /\ allocated = 1
  /\ pc = [t \in Threads |-> "idle"]
  /\ obj = [t \in Threads |-> None]
  /\ ret = [t \in Threads |-> None]
  /\ arg = [t \in Threads |-> NoTime]
  /\ _initialized = TRUE
  /\ local_mode = TRUE
  /\ db_driver = FALSE
  /\ _flows = {1}
  /\ _runs = EmptyDict
  /\ flows = <<NewFlow(<<"f">>)>>
  /\ defaultData = EmptyDict
  /\ run = <<>>
  /\ now = 0
  /\ csv = EmptyDict
  /\ db_flows = EmptyDict
  /\ db_runs = EmptyDict
  /\ db_records = {}
  /\ db_dataframes = <<>>
  /\ taken = NoSnapshot
  /\ last = NoCall
  /\ calls = 0

NextThreads ==
  \/ Tick
  \/ \E t \in Threads :
       \/ ThreadCallStart(t)
       \/ SnrGet(t)
       \/ SnrNew(t)
       \/ SnrStore(t)
       \/ SnrStatus(t)
       \/ SnrSave(t)
       \/ SnrReturn(t)
       \/ ThreadCallEnd(t)
       \/ ErGet(t)
       \/ ErStatus(t)
       \/ ErSave(t)

SpecThreads == InitThreads /\ [][NextThreads]_vars

\* C15: whatever the interleaving of concurrent start_new_run and end_run
\* calls, every run whose start_new_run has returned is in the run registry.
C15_ReturnedRunsRegistered ==
  \A t \in Threads :
    ret[t] # None => \E id \in DOMAIN _runs : _runs[id] = ret[t]


\* ------------------------------------------------------------ SpecDriver
\* drivers/mongodb.py: a client calls the methods of a MongoDBDriver whose
\* store is empty or holds a flow and a run.

\* the _id and reference arguments: None stands for None and for "", which
\* `not run_id' treats alike; StoredFlow + 1 and StoredRun + 1 are unknown
\* until stored
DriverFlowIds == {None, StoredFlow, StoredFlow + 1}
DriverRunIds == {None, StoredRun, StoredRun + 1}
DriverStatuses == {"", "completed"}
DriverMetrics == {EmptyDict, ("acc" :> 1)}
\* the records of a DataFrame: none for an empty one
DriverFrames == {<<>>, <<"row">>}

\* a run document as save_new_run receives it
RunDoc(flow_ref) == [flow_ref |-> flow_ref, status |-> "created", metrics |-> EmptyDict]

\* the mutant of DbSaveNewRun: flow_ref is not validated
DbSaveNewRun_NoValidation(runs, run_id, flow_ref) ==
  IF run_id \in DOMAIN runs
    THEN [fault |-> "DuplicateKeyError", runs |-> runs,
          io |-> <<"run_models.insert_one">>]
    ELSE [fault |-> "none", runs |-> (run_id :> RunDoc(flow_ref)) @@ runs,
          io |-> <<"run_models.insert_one">>]

\* MongoDBDriver.save_new_run: validate_flow_ref, then insert_one, which
\* raises DuplicateKeyError for an _id the collection holds
DbSaveNewRun(runs, run_id, flow_ref) ==
  IF flow_ref \notin DOMAIN db_flows
    THEN [fault |-> "ValueError", runs |-> runs, io |-> <<"flow_models.find_one">>]
    ELSE IF run_id \in DOMAIN runs
      THEN [fault |-> "DuplicateKeyError", runs |-> runs,
            io |-> <<"flow_models.find_one", "run_models.insert_one">>]
      ELSE [fault |-> "none", runs |-> (run_id :> RunDoc(flow_ref)) @@ runs,
            io |-> <<"flow_models.find_one", "run_models.insert_one">>]

\* MongoDBDriver.add_step: after the check of flow_ref, the arguments of
\* update_one are evaluated and step.to_dict() raises before update_one runs
DbAddStep(fls, flow_ref, step_name, step_data) ==
  IF flow_ref = None
    THEN [fault |-> "ValueError", flows |-> fls, io |-> <<>>]
    ELSE [fault |-> DriverAddStepCall, flows |-> fls, io |-> <<>>]

\* MongoDBDriver.save_dataframe(run_id, df)
DbSaveDataframe(dfs, run_id, rows) ==
  IF run_id = None
    THEN [fault |-> "ValueError", dataframes |-> dfs, io |-> <<>>]
    ELSE IF rows = <<>>
      THEN [fault |-> "ValueError", dataframes |-> dfs, io |-> <<>>]
      ELSE [fault |-> "none", io |-> <<"dataframes.insert_one">>,
            dataframes |-> Append(dfs, [run_id |-> run_id, data |-> rows])]

\* the record of a driver call
DriverCall(op, r, flow_id, run_id, status, data) ==
  [NoCall EXCEPT !.op = op, !.fault = r.fault, !.io = r.io, !.id = flow_id,
                 !.run = run_id, !.arg = status, !.data = data]

DriverSaveFlow(flow_id, name) ==
  /\ OneCall
  /\ IF flow_id \in DOMAIN db_flows
       THEN /\ last' = DriverCall("save_flow", [fault |-> "DuplicateKeyError",
                                               io |-> <<"flow_models.insert_one">>],
                                  flow_id, NoTime, "none", name)
            /\ UNCHANGED db_flows
       ELSE /\ last' = DriverCall("save_flow", [fault |-> "none",
                                               io |-> <<"flow_models.insert_one">>],
                                  flow_id, NoTime, "none", name)
            /\ db_flows' = DbSaveFlow(db_flows, flow_id, name)
  /\ UNCHANGED <<ctorVars, facadeVars, entityVars, now, csv, db_runs, db_records, db_dataframes>>

DriverAddStep(flow_ref, step_name, step_data) ==
  /\ OneCall
  /\ LET r == DbAddStep(db_flows, flow_ref, step_name, step_data) IN
       /\ db_flows' = r.flows
       /\ last' = DriverCall("add_step", r, flow_ref, NoTime, step_name, step_data)
  /\ UNCHANGED <<ctorVars, facadeVars, entityVars, now, csv, db_runs, db_records, db_dataframes>>

DriverSaveNewRun(run_id, flow_ref) ==
  /\ OneCall
  /\ LET r == DbSaveNewRun(db_runs, run_id, flow_ref) IN
       /\ db_runs' = r.runs
       /\ last' = DriverCall("save_new_run", r, flow_ref, run_id, "none", EmptyDict)
  /\ UNCHANGED <<ctorVars, facadeVars, entityVars, now, csv, db_flows, db_records, db_dataframes>>

DriverSaveMetrics(run_id, metrics) ==
  /\ OneCall
  /\ LET r == DbSaveMetrics(db_runs, run_id, metrics) IN
       /\ db_runs' = r.runs
       /\ last' = DriverCall("save_metrics", r, None, run_id, "none", metrics)
  /\ UNCHANGED <<ctorVars, facadeVars, entityVars, now, csv, db_flows, db_records, db_dataframes>>

DriverSaveFlowRecord(flow_ref, run_ref, step_name) ==
  /\ OneCall
  /\ LET rec == [flow_ref |-> flow_ref, run_ref |-> run_ref, step_name |-> step_name]
         r == DbSaveFlowRecord(rec)
     IN /\ db_records' = IF r.fault = "none" THEN db_records \cup {rec} ELSE db_records
        /\ last' = DriverCall("save_flow_record", r, flow_ref, run_ref, step_name, EmptyDict)
  /\ UNCHANGED <<ctorVars, facadeVars, entityVars, now, csv, db_flows, db_runs, db_dataframes>>

DriverSaveDataframe(run_id, rows) ==
  /\ OneCall
  /\ LET r == DbSaveDataframe(db_dataframes, run_id, rows) IN
       /\ db_dataframes' = r.dataframes
       /\ last' = DriverCall("save_dataframe", r, None, run_id, "none", rows)
  /\ UNCHANGED <<ctorVars, facadeVars, entityVars, now, csv, db_flows, db_runs, db_records>>

DriverUpdateRunStatus(run_id, status) ==
  /\ OneCall
  /\ LET r == DbUpdateRunStatus(db_runs, run_id, status) IN
       /\ db_runs' = r.runs
       /\ last' = DriverCall("update_run_status", r, None, run_id, status, EmptyDict)
  /\ UNCHANGED <<ctorVars, facadeVars, entityVars, now, csv, db_flows, db_records, db_dataframes>>

DriverUpdateFlowStatus(flow_id, status) ==
  /\ OneCall
  /\ LET r == DbUpdateFlowStatus(db_flows, flow_id, status) IN
       /\ db_flows' = r.flows
       /\ last' = DriverCall("update_flow_status", r, flow_id, NoTime, status, EmptyDict)
  /\ UNCHANGED <<ctorVars, facadeVars, entityVars, now, csv, db_runs, db_records, db_dataframes>>

\* the driver of a remote-mode singleton
InitDriver == Init /\ ~local_mode

NextDriver ==
  \/ \E flow_id \in DriverFlowIds \ {None} : DriverSaveFlow(flow_id, <<"f">>)
  \/ \E flow_ref \in DriverFlowIds, step_name \in RecordSteps, step_data \in DataInputs :
       DriverAddStep(flow_ref, step_name, step_data)
  \/ \E run_id \in DriverRunIds \ {None}, flow_ref \in DriverFlowIds :
       DriverSaveNewRun(run_id, flow_ref)
  \/ \E run_id \in DriverRunIds, metrics \in DriverMetrics :
       DriverSaveMetrics(run_id, metrics)
  \/ \E flow_ref \in DriverFlowIds, run_ref \in DriverRunIds, step_name \in RecordSteps :
       DriverSaveFlowRecord(flow_ref, run_ref, step_name)
  \/ \E run_id \in DriverRunIds, rows \in DriverFrames : DriverSaveDataframe(run_id, rows)
  \/ \E run_id \in DriverRunIds, status \in DriverStatuses :
       DriverUpdateRunStatus(run_id, status)
  \/ \E flow_id \in DriverFlowIds, status \in DriverStatuses :
       DriverUpdateFlowStatus(flow_id, status)

SpecDriver == InitDriver /\ [][NextDriver]_vars

\* the collections of the store
Store == <<db_flows, db_runs, db_records, db_dataframes>>

\* a driver call one of whose arguments is empty: the metrics or the run_id
\* of save_metrics, the DataFrame or the id of save_dataframe, the id or the
\* status of update_run_status and update_flow_status
EmptyArgument(c) ==
  \/ c.op = "save_metrics" /\ (DOMAIN c.data = {} \/ c.run = None)
  \/ c.op = "save_dataframe" /\ (c.data = <<>> \/ c.run = None)
  \/ c.op = "update_run_status" /\ (c.arg = "" \/ c.run = None)
  \/ c.op = "update_flow_status" /\ (c.arg = "" \/ c.id = None)

\* C22: the driver's save_metrics and update_run_status called with a run id
\* that names no stored run, and update_flow_status and add_step called with a
\* flow id that names no stored flow (the other arguments not empty), raise
\* KeyError and leave every collection as it was.
C22_UpdatesNeverCreate ==
  [][(/\ ~EmptyArgument(last')
      /\ \/ /\ last'.op \in {"save_metrics", "update_run_status"}
            /\ last'.run # None /\ last'.run \notin DOMAIN db_runs
         \/ /\ last'.op \in {"update_flow_status", "add_step"}
            /\ last'.id # None /\ last'.id \notin DOMAIN db_flows)
       => (last'.fault = "KeyError" /\ Store' = Store)]_vars

\* every stored run refers to a stored flow, every stored flow record to a
\* stored flow and a stored run
ReferencesResolve ==
  /\ \A r \in DOMAIN db_runs : db_runs[r].flow_ref \in DOMAIN db_flows
  /\ \A rec \in db_records :
       rec.flow_ref \in DOMAIN db_flows /\ rec.run_ref \in DOMAIN db_runs

\* C23: after any sequence of driver calls every stored run has a flow_ref
\* that names a stored flow and every stored flow record a flow_ref and a
\* run_ref that name a stored flow and a stored run; save_new_run with an
\* unknown flow_ref and save_flow_record with an unknown flow_ref or run_ref
\* raise and insert nothing.
C23_ReferentialIntegrity ==
  /\ []ReferencesResolve
  /\ [][(\/ last'.op = "save_new_run" /\ last'.id \notin DOMAIN db_flows
         \/ /\ last'.op = "save_flow_record"
            /\ (last'.id \notin DOMAIN db_flows \/ last'.run \notin DOMAIN db_runs))
          => (last'.fault # "none" /\ Store' = Store)]_vars

\* the store holds a flow, a run of it and a flow record, and save_new_run
\* has just been refused for a new run whose flow_ref names no stored flow
C23_Witness ==
  /\ last.op = "save_new_run" /\ last.fault = "ValueError"
  /\ last.id # None /\ last.id \notin DOMAIN db_flows
  /\ last.run \notin DOMAIN db_runs
  /\ DOMAIN db_flows # {}
  /\ DOMAIN db_runs # {}
  /\ db_records # {}

\* C24: save_metrics with empty metrics or an empty run_id, save_dataframe
\* with an empty DataFrame or an empty id, update_run_status and
\* update_flow_status with an empty id or an empty status raise ValueError
\* having made no operation on any collection, and every collection is as it
\* was.
C24_ValidationBeforeStore ==
  [][EmptyArgument(last')
       => (last'.fault = "ValueError" /\ last'.io = <<>> /\ Store' = Store)]_vars

\* update_flow_status has just been refused for an empty status on a stored
\* flow, after a save_dataframe call that stored a frame
C24_Witness ==
  /\ last.op = "update_flow_status" /\ last.fault = "ValueError"
  /\ last.arg = "" /\ last.id \in DOMAIN db_flows
  /\ last.io = <<>>
  /\ db_dataframes # <<>>


\* --------------------------------------------------------------- SpecCsv
\* logger.py: threads call save_dataframe(run_id, df) of the singleton, in
\* local or in remote mode, each once; a thread may be preempted between
\* file_path.exists() and df.to_csv.  Here arg[t] is the run_id thread t
\* passed, obj[t] what file_path.exists() returned to it, and ret[t] is t once
\* its call has returned.

\* the frame thread t passes: one row, different from every other thread's
FrameOf(t) == <<<<"row", t>>>>

\* a thread calls save_dataframe(run_id, df)
SdfCall(t) ==
  /\ pc[t] = "idle"
  /\ \E run_id \in 0..MaxTime : arg' = [arg EXCEPT ![t] = run_id]
  /\ pc' = [pc EXCEPT ![t] = "sdf_exists"]
  /\ UNCHANGED <<_instance, _lock, allocated, obj, ret>>
  /\ UNCHANGED <<facadeVars, entityVars, now, dbVars, last, calls>>

\* line 341: if file_path.exists()
SdfExists(t) ==
  /\ pc[t] = "sdf_exists"
  /\ obj' = [obj EXCEPT ![t] = RunKey(arg[t]) \in DOMAIN csv]
  /\ pc' = [pc EXCEPT ![t] = "sdf_write"]
  /\ UNCHANGED <<_instance, _lock, allocated, ret, arg>>
  /\ UNCHANGED <<facadeVars, entityVars, now, dbVars, last, calls>>

\* lines 342-344: df.to_csv in append mode or in write mode
SdfWrite(t) ==
  /\ pc[t] = "sdf_write"
  /\ csv' = IF obj[t] THEN CsvAppend(csv, RunKey(arg[t]), FrameOf(t))
                      ELSE CsvWrite(csv, RunKey(arg[t]), FrameOf(t))
  /\ pc' = [pc EXCEPT ![t] = "sdf_ret"]
  /\ UNCHANGED <<_instance, _lock, allocated, obj, ret, arg>>
  /\ UNCHANGED <<facadeVars, entityVars, now, last, calls>>
  /\ UNCHANGED <<db_flows, db_runs, db_records, db_dataframes>>

\* lines 345-347: the method returns; it has made no call of db_driver
SdfReturn(t) ==
  /\ pc[t] = "sdf_ret"
  /\ ret' = [ret EXCEPT ![t] = t]
  /\ pc' = [pc EXCEPT ![t] = "done"]
  /\ UNCHANGED <<_instance, _lock, allocated, obj, arg>>
  /\ UNCHANGED <<facadeVars, entityVars, now, dbVars, last, calls>>

NextCsv ==
  \E t \in Threads :
    \/ SdfCall(t)
    \/ SdfExists(t)
    \/ SdfWrite(t)
    \/ SdfReturn(t)

SpecCsv == Init /\ [][NextCsv]_vars

\* the number of lines of a file that are the line l
Occurrences(lines, l) == Cardinality({i \in 1..Len(lines) : lines[i] = l})

\* C27: whatever the order or interleaving of save_dataframe calls, every
\* CSV artifact starts with a header line and has no other, and holds once
\* the rows of every call on its key that has returned.
C27_CsvKeepsEveryRow ==
  /\ \A k \in DOMAIN csv :
       /\ csv[k] # <<>>
       /\ csv[k][1] = Header
       /\ Occurrences(csv[k], Header) = 1
  /\ \A t \in Threads :
       ret[t] # None
         => /\ RunKey(arg[t]) \in DOMAIN csv
            /\ Occurrences(csv[RunKey(arg[t])], FrameOf(t)[1]) = 1

\* C28: when save_dataframe(key, rows) has returned, the rows are in the CSV
\* artifact of the key and, in remote mode, the driver's collection of
\* dataframes holds them once under the same key; in local mode the driver
\* was not called and the collection is as it was.
C28_SaveDataframeForwards ==
  /\ local_mode => db_dataframes = <<>>
  /\ \A t \in Threads :
       ret[t] # None
         => /\ RunKey(arg[t]) \in DOMAIN csv
            /\ \/ local_mode
               \/ Cardinality({i \in 1..Len(db_dataframes) :
                                 db_dataframes[i] = [run_id |-> arg[t],
                                                     data |-> FrameOf(t)]}) = 1

====
